---- MODULE Spec2Model ----
(***************************************************************************)
(* A model of the dependency checker: the registry version cache           *)
(* (dependabot/dependencies/version_checker.py), the OAuth device flow     *)
(* (dependabot/github/oauth.py, web/app.py), the pull-request pipeline     *)
(* (dependabot/github/pr.py) and the repository scraper                    *)
(* (dependabot/github/scraper.py).  Each subsystem has its own specification *)
(* over the shared variables; the variables of the other subsystems stay   *)
(* at their initial values.                                                *)
(***************************************************************************)
EXTENDS Integers, Sequences, FiniteSets, TLC

VARIABLES
    \* ---- registry version cache ----
    VERSION_CACHE,  \* package name -> <<version, timestamp>>
    entryBy,        \* ghost: package name -> lookup function that stored the entry
    lru,            \* lookup function -> its lru_cache, oldest first: Seq(<<key, result>>)
    now,            \* time.time()
    ticks,          \* number of clock advances so far
    pc,             \* worker -> position in its current lookup
    frame,          \* worker -> locals of its current (or last) lookup
    nCalls,         \* lookups started so far
    written,        \* ghost: every [p, version, timestamp, by] a worker stored
    \* ---- OAuth device flow ----
    oauth,          \* the polling loop: implementation, position and locals
    flow,           \* web: oauth_flows[device_code], shared with the request handlers
    req,            \* ghost: the token requests issued so far
    \* ---- pull-request pipeline ----
    prq,            \* create_github_pr: position, arguments and locals
    remote,         \* the remote repository
    prlog,          \* ghost: the remote operations that succeeded, in order
    \* ---- batch of registry checks ----
    batch,          \* check_updates_parallel: position, inputs and locals
    task,           \* declaration index -> the future of its check_package_version
    vc,             \* one call of check_package_version: arguments and result
    \* ---- repository scraper ----
    scr,            \* scrape_dependencies_from_github: position, arguments and locals
    repo,           \* <<file path, branch>> -> what raw.githubusercontent.com answers
    cli,            \* check_updates_parallel around the scraper: position and result
    \* ---- web request handlers ----
    web             \* ghost: the answers of pr_status and submit_pr and what submit_pr did

cacheVars == <<VERSION_CACHE, entryBy, lru, ticks, pc, frame, nCalls, written>>
oauthVars == <<oauth, flow, req>>
prVars == <<prq, remote, prlog>>
batchVars == <<batch, task, vc>>
scrapeVars == <<scr, repo, cli>>

\* What the steps of one subsystem leave alone (now is shared).
notCacheVars == <<oauthVars, prVars, batchVars, scrapeVars, web>>
notOAuthVars == <<cacheVars, prVars, batchVars, scrapeVars, web>>
notPrVars == <<cacheVars, now, oauthVars, batchVars, scrapeVars, web>>
notBatchVars == <<entryBy, ticks, pc, frame, nCalls, written, now, oauthVars, prVars,
                  scrapeVars, web>>
notScrapeVars == <<cacheVars, now, oauthVars, prVars, batchVars, web>>
notWebVars == <<cacheVars, now, oauth, req, prVars, batchVars, scrapeVars>>

vars == <<VERSION_CACHE, entryBy, lru, now, ticks, pc, frame, nCalls, written,
          oauth, flow, req, prq, remote, prlog, batch, task, vc, scr, repo, cli, web>>

\* Python's None.
None == "None"

\* The OAuth variables before any session exists.
NoFlow == [status |-> None, message |-> <<None, None>>, access_token |-> None,
           pr_title |-> None, pr_body |-> None]

NoSession == [impl |-> None, pc |-> None, interval |-> 0, start_time |-> 0,
              expires_in |-> 0, ret |-> None, printed |-> <<None, None>>]

\* The batch variables before any batch or call exists.
NoBatch == [pc |-> None, dep_type |-> None, packages |-> << >>, answers |-> << >>,
            submitted |-> 0, collected |-> {}, updates |-> << >>, sources |-> << >>,
            errors |-> {}, cache0 |-> << >>]

NoCall == [pc |-> None, fn |-> None, dep_type |-> None, spec |-> None,
           latest |-> None, parser |-> None, result |-> << >>]

NoRequests == [count |-> 0, lastAt |-> 0, lastResp |-> None, slowDowns |-> 0]

\* The web handlers before any request: no answer of pr_status or submit_pr
\* yet, no call of create_github_pr, no pull request.
NoAnswer == [code |-> None, status |-> None, access_token |-> None]
NoWeb == [pr_status |-> NoAnswer, submit_pr |-> None, submits |-> 0,
          pipeline_calls |-> 0, pulls |-> 0]

\* What the scraper returns: (packages, dependency_type, file_path), or None.
ScrapeResult(packages, dep_type, path) ==
    [ok |-> TRUE, packages |-> packages, dep_type |-> dep_type, path |-> path]
ScrapeNone == [ok |-> FALSE, packages |-> << >>, dep_type |-> None, path |-> None]

\* The scraper and check_updates_parallel before any call.
NoScrape ==
    [pc |-> None, repo_url |-> None, file_path_override |-> None,
     files_to_process |-> << >>, file |-> 0, branch |-> 0,
     actual_dep_type_to_use |-> None, ret |-> ScrapeNone, probes |-> << >>]

CliResult(updates, dep_type, path) ==
    [updates |-> updates, dependency_type |-> dep_type, dependency_file_path |-> path]
NoCli == [pc |-> None, submitted |-> 0, ret |-> CliResult(<< >>, None, None)]

(***************************************************************************)
(* Pull-request pipeline: generate_new_dependency_file_content and         *)
(* create_github_pr                                                        *)
(***************************************************************************)

\* Text is a sequence of characters.  The alphabet: two letters, two digits
\* and the dot (all in [a-zA-Z0-9._-]), the operators, blank, '#', brackets
\* and the line feed.
NameChars == {"f", "b", "1", "2", "."}
ExtrasChars == NameChars \cup {","}
Blank == {" "}
LF == "\n"

RECURSIVE SplitLines(_)
\* str.splitlines(): no empty last line after a final line feed.
SplitLines(s) ==
    IF s = << >> THEN << >>
    ELSE IF \E i \in 1..Len(s) : s[i] = LF
    THEN LET i == CHOOSE k \in 1..Len(s) :
                      s[k] = LF /\ \A j \in 1..(k - 1) : s[j] # LF
         IN <<SubSeq(s, 1, i - 1)>> \o SplitLines(SubSeq(s, i + 1, Len(s)))
    ELSE <<s>>

RECURSIVE JoinLines(_)
\* "\n".join(new_lines)
JoinLines(lines) ==
    IF lines = << >> THEN << >>
    ELSE IF Len(lines) = 1 THEN lines[1]
    ELSE lines[1] \o <<LF>> \o JoinLines(Tail(lines))

RECURSIVE Strip(_)
\* str.strip()
Strip(s) ==
    IF s = << >> THEN s
    ELSE IF s[1] \in Blank THEN Strip(Tail(s))
    ELSE IF s[Len(s)] \in Blank THEN Strip(SubSeq(s, 1, Len(s) - 1))
    ELSE s

\* The length of the longest prefix of s made of characters of cs.
PrefixLen(s, cs) ==
    IF \E i \in 1..Len(s) : s[i] \notin cs
    THEN (CHOOSE i \in 1..Len(s) :
              s[i] \notin cs /\ \A j \in 1..(i - 1) : s[j] \in cs) - 1
    ELSE Len(s)

\* group(1) of ^\s*([a-zA-Z0-9._-]+(?:\[[a-zA-Z0-9_,.-]+\])?)... on a stripped
\* line: the leading run of name characters, with a bracketed list of extras
\* when one follows at once; << >> when the line does not match.
LeadingToken(line) ==
    LET n == PrefixLen(line, NameChars)
        rest == SubSeq(line, n + 1, Len(line))
        e == IF rest # << >> /\ rest[1] = "["
             THEN PrefixLen(Tail(rest), ExtrasChars) ELSE 0
    IN IF n = 0 THEN << >>
       ELSE IF e > 0 /\ Len(rest) >= e + 2 /\ rest[e + 2] = "]"
       THEN SubSeq(line, 1, n + e + 2)
       ELSE SubSeq(line, 1, n)

\* updates_map = {pkg_name: latest_version for pkg_name, _, latest_version in ...}:
\* the last update of a package wins.
UpdatesMap(updates) ==
    [name \in {updates[i][1] : i \in 1..Len(updates)} |->
        LET last == CHOOSE i \in 1..Len(updates) :
                        /\ updates[i][1] = name
                        /\ \A j \in (i + 1)..Len(updates) : updates[j][1] # name
        IN updates[last][3]]

\* One line of a pip file: blank lines and comments are kept; a line whose
\* leading token is in updates_map becomes name==latest; the rest is kept.
PatchPipLine(line, map) ==
    LET stripped == Strip(line)
        token == LeadingToken(stripped)
    IN IF stripped = << >> \/ stripped[1] = "#" THEN line
       ELSE IF token # << >> /\ token \in DOMAIN map
       THEN token \o <<"=", "=">> \o map[token]
       ELSE line

\* A file: the text of a pip file (kind "text"), or a package.json given by
\* what it parses to and by whether its text is what json.dumps(data,
\* indent=2) writes for that data (fmt "indent2").  A value of a dependency
\* section is <<prefix, version>>.
TextFile(t) ==
    [kind |-> "text", text |-> t, valid |-> FALSE, fmt |-> "other",
     hasDeps |-> FALSE, deps |-> << >>, hasDev |-> FALSE, dev |-> << >>]

JsonFile(fmt, hasDeps, deps, hasDev, dev) ==
    [kind |-> "json", text |-> << >>, valid |-> TRUE, fmt |-> fmt,
     hasDeps |-> hasDeps, deps |-> deps, hasDev |-> hasDev, dev |-> dev]

\* A package.json that json.loads rejects.
BadJsonFile ==
    [kind |-> "json", text |-> << >>, valid |-> FALSE, fmt |-> "other",
     hasDeps |-> FALSE, deps |-> << >>, hasDev |-> FALSE, dev |-> << >>]

\* A patch that keeps the range operator the manifest had.
PatchSection_KeepOperator(section, map) ==
    [name \in DOMAIN section |->
        IF name \in DOMAIN map THEN <<section[name][1], map[name]>> ELSE section[name]]

\* data[section][pkg_name] = f"^{latest_version}" for each update in the section
PatchSection(section, map) ==
    [name \in DOMAIN section |->
        IF name \in DOMAIN map THEN <<"^", map[name]>> ELSE section[name]]

\* generate_new_dependency_file_content
generate_new_dependency_file_content(original_content, dep_type, updates_to_apply) ==
    IF updates_to_apply = << >> THEN original_content
    ELSE LET map == UpdatesMap(updates_to_apply) IN
         IF dep_type = "pip"
         THEN LET lines == SplitLines(original_content.text) IN
              [original_content EXCEPT !.text =
                  JoinLines([i \in 1..Len(lines) |-> PatchPipLine(lines[i], map)])]
         ELSE IF dep_type = "npm"
         THEN IF ~original_content.valid THEN original_content
              ELSE [original_content EXCEPT
                       !.fmt = "indent2",
                       !.deps = PatchSection(original_content.deps, map),
                       !.dev = PatchSection(original_content.dev, map)]
         ELSE original_content

\* The files and update lists create_github_pr is called with.
PipFiles ==
    { TextFile(<<"f", "=", "=", "1", LF, "#", "b", LF, "b", ">", "=", "1", LF>>),
      TextFile(<<"f", "=", "=", "1", LF, "b", "=", "=", "1">>),
      TextFile(<<"f", "=", "=", "2">>),
      TextFile(<<"f", "=", "=", "2", LF, LF>>),
      TextFile(<<" ", "f", ">", "1", LF, LF, "f", "f", "=", "=", "1">>),
      TextFile(<< >>) }

NpmFiles ==
    { JsonFile("indent2", TRUE, [f |-> <<"^", "1">>], FALSE, << >>),
      JsonFile("other", TRUE, [f |-> <<"~", "1">>], TRUE, [b |-> <<"", "1">>]),
      JsonFile("indent2", TRUE, [f |-> <<"^", "2">>], TRUE, [b |-> <<"^", "1">>]),
      JsonFile("other", FALSE, << >>, FALSE, << >>),
      JsonFile("other", TRUE, [f |-> <<"^", "2">>], FALSE, << >>),
      BadJsonFile }

PipUpdates ==
    { << >>,
      << <<<<"f">>, <<"1">>, <<"2">>>> >>,
      << <<<<"b">>, <<"1">>, <<"2">>>> >>,
      << <<<<"f">>, <<"1">>, <<"2">>>>, <<<<"b">>, <<"1">>, <<"2">>>> >>,
      << <<<<"f">>, <<"1">>, <<"2">>>>, <<<<"b">>, <<">", "=", "1">>, <<"2">>>> >> }

NpmUpdates ==
    { << >>,
      << <<"f", "1", "2">> >>,
      << <<"b", "1", "2">> >>,
      << <<"f", "1", "2">>, <<"b", "1", "2">> >> }

\* new_file_content before it is assigned.
NotComputed == [TextFile(<< >>) EXCEPT !.kind = "unset"]

NoInvocation ==
    [pc |-> None, dep_type |-> None, original |-> TextFile(<< >>),
     updates |-> << >>, new_content |-> NotComputed, branch |-> None,
     sha |-> 0, ret |-> None, ref_outcome |-> None, failed_at |-> None]

NoRemote == [refs |-> {}, file |-> FALSE, sha |-> 0, author |-> None, pulls |-> 0,
             other_writes |-> 0]

\* How many times another writer commits to the file on the new branch.
MaxOtherWrites == 1

\* f"{PR_BRANCH_NAME_PREFIX}{dep_type}-{int(time.time())}"
NewBranchName(dep_type, t) == <<"dep-updates/", dep_type, t>>

\* A remote call raises GithubException (or another exception): the outer
\* handlers print the error and create_github_pr returns None.
PrFail(at) ==
    /\ prq.pc = at
    /\ prq' = [prq EXCEPT !.pc = "done", !.ret = None, !.failed_at = at]
    /\ UNCHANGED <<remote, prlog>>

\* if not updates_to_apply: return None
PrEnter ==
    /\ prq.pc = "enter"
    /\ prq' = IF prq.updates = << >>
              THEN [prq EXCEPT !.pc = "done", !.ret = None]
              ELSE [prq EXCEPT !.pc = "get_branch"]
    /\ UNCHANGED <<remote, prlog>>
    /\ UNCHANGED notPrVars

\* repo = g.get_repo(...); repo.default_branch; repo.get_branch(...)
PrGetBranch ==
    /\ \/ PrFail("get_branch")
       \/ /\ prq.pc = "get_branch"
          /\ prq' = [prq EXCEPT !.pc = "create_ref",
                        !.branch = NewBranchName(prq.dep_type, now)]
          /\ prlog' = Append(prlog, "get_branch")
          /\ UNCHANGED remote
    /\ UNCHANGED notPrVars

\* repo.create_git_ref(...): the ref is created; or it exists already (422
\* "Reference already exists") and is used; or another failure is raised.
\* What repo.create_git_ref may do: create the ref, raise 422 "Reference
\* already exists" when the branch is there, or raise another failure.
RefOutcomes(exists) ==
    (IF exists THEN {"exists"} ELSE {"created"}) \cup {"failed"}

\* A handler that re-raises every failure of create_git_ref.
OnCreateRef_ExistsIsFatal(outcome) ==
    IF outcome = "created" THEN "generate" ELSE "done"

\* Where create_github_pr goes after create_git_ref: on, when the ref was
\* created or the 422 was caught; to the outer handler (raise) otherwise.
OnCreateRef(outcome) ==
    IF outcome \in {"created", "exists"} THEN "generate" ELSE "done"

PrCreateRef ==
    /\ prq.pc = "create_ref"
    /\ \E outcome \in RefOutcomes(prq.branch \in remote.refs) :
          /\ prq' = [prq EXCEPT !.pc = OnCreateRef(outcome),
                        !.ref_outcome = outcome,
                        !.failed_at = IF OnCreateRef(outcome) = "done"
                                      THEN "create_ref" ELSE @]
          /\ IF outcome = "created"
             THEN /\ remote' = [remote EXCEPT !.refs = @ \cup {prq.branch}]
                  /\ prlog' = Append(prlog, "create_git_ref")
             ELSE UNCHANGED <<remote, prlog>>
    /\ UNCHANGED notPrVars

\* new_file_content = generate_new_dependency_file_content(...)
\* if new_file_content == original_file_content: return None
PrGenerate ==
    /\ prq.pc = "generate"
    /\ LET new == generate_new_dependency_file_content(
                      prq.original, prq.dep_type, prq.updates)
       IN prq' = IF new = prq.original
                 THEN [prq EXCEPT !.pc = "done", !.ret = None, !.new_content = new]
                 ELSE [prq EXCEPT !.pc = "get_contents", !.new_content = new]
    /\ UNCHANGED <<remote, prlog>>
    /\ UNCHANGED notPrVars

\* A pipeline that opens the pull request right after reading the file.
PrGetContents_SkipCommit ==
    /\ \/ PrFail("get_contents")
       \/ /\ prq.pc = "get_contents"
          /\ prq' = [prq EXCEPT !.pc = "create_pull", !.sha = remote.sha]
          /\ prlog' = Append(prlog, "get_contents")
          /\ UNCHANGED remote
    /\ UNCHANGED notPrVars

\* repo.get_contents(path, ref=new_branch_name): the file's sha, or
\* UnknownObjectException when the branch has no such file.
PrGetContents ==
    /\ \/ PrFail("get_contents")
       \/ /\ prq.pc = "get_contents"
          /\ prq' = IF remote.file
                    THEN [prq EXCEPT !.pc = "update_file", !.sha = remote.sha]
                    ELSE [prq EXCEPT !.pc = "create_file"]
          /\ prlog' = Append(prlog, "get_contents")
          /\ UNCHANGED remote
    /\ UNCHANGED notPrVars

\* An update that is accepted whatever hash it carries.
PrUpdateFile_IgnoreSha ==
    /\ \/ PrFail("update_file")
       \/ /\ prq.pc = "update_file"
          /\ remote' = [remote EXCEPT !.sha = @ + 1, !.author = "pipeline"]
          /\ prlog' = Append(prlog, "update_file")
          /\ prq' = [prq EXCEPT !.pc = "create_pull"]
    /\ UNCHANGED notPrVars

\* repo.update_file(..., sha=current_sha, ...): the remote accepts the commit
\* only when current_sha is the file's hash on the branch (409 otherwise).
PrUpdateFile ==
    /\ \/ PrFail("update_file")
       \/ /\ prq.pc = "update_file"
          /\ prq.sha = remote.sha
          /\ remote' = [remote EXCEPT !.sha = @ + 1, !.author = "pipeline"]
          /\ prlog' = Append(prlog, "update_file")
          /\ prq' = [prq EXCEPT !.pc = "create_pull"]
    /\ UNCHANGED notPrVars

\* repo.create_file(...): the remote rejects it when the file exists (422).
PrCreateFile ==
    /\ \/ PrFail("create_file")
       \/ /\ prq.pc = "create_file"
          /\ ~remote.file
          /\ remote' = [remote EXCEPT !.file = TRUE, !.sha = @ + 1,
                           !.author = "pipeline"]
          /\ prlog' = Append(prlog, "create_file")
          /\ prq' = [prq EXCEPT !.pc = "create_pull"]
    /\ UNCHANGED notPrVars

\* repo.create_pull(...); return pull_request.html_url
PrCreatePull ==
    /\ \/ PrFail("create_pull")
       \/ /\ prq.pc = "create_pull"
          /\ remote' = [remote EXCEPT !.pulls = @ + 1]
          /\ prlog' = Append(prlog, "create_pull")
          /\ prq' = [prq EXCEPT !.pc = "done", !.ret = "html_url"]
    /\ UNCHANGED notPrVars

\* Another writer commits the file to the new branch while the pipeline is
\* between its remote calls on that branch.
OtherWriter ==
    /\ prq.pc \in {"get_contents", "update_file", "create_file", "create_pull"}
    /\ remote.other_writes < MaxOtherWrites
    /\ remote' = [remote EXCEPT !.file = TRUE, !.sha = @ + 1, !.author = "other",
                     !.other_writes = @ + 1]
    /\ prlog' = Append(prlog, "other_write")
    /\ UNCHANGED prq
    /\ UNCHANGED notPrVars

InitPr ==
    /\ web = NoWeb
    /\ scr = NoScrape
    /\ repo = << >>
    /\ cli = NoCli
    /\ VERSION_CACHE = << >>
    /\ entryBy = << >>
    /\ lru = [fn \in {"get_latest_version", "get_latest_npm_version"} |-> << >>]
    /\ now = 0
    /\ ticks = 0
    /\ pc = [w \in {"w1", "w2"} |-> "idle"]
    /\ frame = << >>
    /\ nCalls = 0
    /\ written = {}
    /\ oauth = NoSession
    /\ flow = NoFlow
    /\ req = NoRequests
    /\ \E t \in {"pip", "npm"} :
         \E o \in (IF t = "pip" THEN PipFiles ELSE NpmFiles),
            u \in (IF t = "pip" THEN PipUpdates ELSE NpmUpdates) :
            prq = [NoInvocation EXCEPT !.pc = "enter", !.dep_type = t,
                      !.original = o, !.updates = u]
    /\ \E refs \in {{}, {NewBranchName("pip", 0)}, {NewBranchName("npm", 0)}},
          file \in BOOLEAN :
            remote = [NoRemote EXCEPT !.refs = refs, !.file = file, !.sha = 1,
                         !.author = IF file THEN "base" ELSE None]
    /\ prlog = << >>
    /\ batch = NoBatch
    /\ task = << >>
    /\ vc = NoCall

NextPr ==
    \/ PrEnter
    \/ PrGetBranch
    \/ PrCreateRef
    \/ PrGenerate
    \/ PrGetContents
    \/ PrUpdateFile
    \/ PrCreateFile
    \/ PrCreatePull
    \/ OtherWriter

SpecPr == InitPr /\ [][NextPr]_vars

\* The invocation has created a branch ref, committed a file or opened a
\* pull request on the remote repository.
RemoteMutated ==
    \E i \in 1..Len(prlog) :
        prlog[i] \in {"create_git_ref", "update_file", "create_file", "create_pull"}

\* C2: if the computed content equals the original byte-for-byte, the
\* invocation is a NoOp: at no point has it created a branch ref, committed a
\* file or opened a pull request.
C2_UnchangedContentIsNoOp ==
    (prq.pc = "done" /\ prq.new_content = prq.original) => ~RemoteMutated

\* The remote operations of the log that are of the given kinds.
Logged(kinds) == {i \in 1..Len(prlog) : prlog[i] \in kinds}

\* The pipeline read the file's hash on the new branch, and another writer
\* committed to the file after that read and before any commit of the pipeline.
OtherWroteAfterHashRead ==
    /\ prq.sha # 0
    /\ \E i \in Logged({"get_contents"}), j \in Logged({"other_write"}) :
          /\ i < j
          /\ \A k \in Logged({"update_file", "create_file"}) : j < k

\* C14: a file present on the new branch is committed with update_file and the
\* hash read from that branch, an absent one with create_file; when another
\* writer changes the file between the hash read and the update, the update
\* does not happen, the file stays the other writer's, and the invocation ends
\* in failure (None) without a pull request.
C14_StaleHashFails ==
    /\ Logged({"update_file"}) # {} => (prq.sha # 0 /\ Logged({"create_file"}) = {})
    /\ Logged({"create_file"}) # {} => prq.sha = 0
    /\ OtherWroteAfterHashRead =>
          /\ Logged({"update_file", "create_file", "create_pull"}) = {}
          /\ remote.author = "other"
          /\ prq.pc \in {"update_file", "done"}
          /\ prq.pc = "done" => (prq.ret = None /\ prq.failed_at = "update_file")

\* The invocation failed at update_file on a hash that another writer had
\* made stale.
C14_Witness ==
    /\ OtherWroteAfterHashRead
    /\ prq.pc = "done" /\ prq.failed_at = "update_file"
    /\ prq.sha # remote.sha

\* C15: when create_git_ref fails because the ref already exists, the
\* invocation goes on with that branch (to the commit and the pull request);
\* any other failure of create_git_ref ends the invocation with None, no file
\* commit and no pull request.
C15_ExistingRefIsReused ==
    /\ prq.ref_outcome = "exists" =>
          /\ prq.pc # "create_ref" /\ prq.failed_at # "create_ref"
          /\ Logged({"create_git_ref"}) = {}
    /\ prq.ref_outcome = "failed" =>
          /\ prq.pc = "done" /\ prq.ret = None /\ prq.failed_at = "create_ref"
          /\ Logged({"create_git_ref", "update_file", "create_file", "create_pull"}) = {}

\* An invocation that found its branch already there, committed to it and
\* opened the pull request.
C15_Witness ==
    /\ prq.ref_outcome = "exists"
    /\ prq.pc = "done" /\ prq.ret = "html_url"
    /\ Logged({"update_file", "create_file"}) # {}
    /\ Logged({"create_pull"}) # {}

RECURSIVE PatchKeepingTerminators(_, _)
\* A pip file patched line by line with every line feed of the original kept
\* in its place, the one that ends the file included.
PatchKeepingTerminators(text, map) ==
    IF text = << >> THEN << >>
    ELSE IF \E i \in 1..Len(text) : text[i] = LF
    THEN LET i == CHOOSE k \in 1..Len(text) :
                      text[k] = LF /\ \A j \in 1..(k - 1) : text[j] # LF
         IN PatchPipLine(SubSeq(text, 1, i - 1), map) \o <<LF>>
                \o PatchKeepingTerminators(SubSeq(text, i + 1, Len(text)), map)
    ELSE PatchPipLine(text, map)

\* C30: the new content of a pip file is the original with the lines whose
\* leading package token is updated replaced by name==latest; comments, blank
\* lines, other package lines and the line terminators, a trailing newline
\* included, are kept verbatim and in order.
C30_PipPatchKeepsOtherContent ==
    (prq.dep_type = "pip" /\ prq.new_content # NotComputed) =>
        prq.new_content.text =
            PatchKeepingTerminators(prq.original.text, UpdatesMap(prq.updates))

(***************************************************************************)
(* OAuth device flow: get_github_oauth_token (CLI), poll_and_create_pr and  *)
(* the request handlers (web)                                              *)
(***************************************************************************)

\* interval += 10
SlowDownIncrement_Doubled == 2 * 5

\* interval += 5
SLOW_DOWN_INCREMENT == 5
\* device_code_data.get("interval", 5)
DEFAULT_INTERVAL == 5
\* device_code_data.get("expires_in", 300) / device_data.get("expires_in", 900)
CLI_DEFAULT_EXPIRES_IN == 300
WEB_DEFAULT_EXPIRES_IN == 900

Impls == {"cli", "web"}

\* A field the device-code response leaves out.
Absent == -1
\* The expires_in and interval a device-code response may carry.
ExpiresInOffers == {10, 12}
IntervalOffers == {Absent, 4}

\* The access token GitHub grants.
TheToken == "gho_token"

\* What a token request may come back with: an exception of the transport, a
\* body that is not JSON, an error code, a granted token, a body whose
\* access_token is empty, or a JSON object with neither key.
TransientFailures == {"transport_failure", "decode_failure"}
ErrorCodes == {"authorization_pending", "slow_down", "expired_token",
               "access_denied", "incorrect_device_code"}
TokenResponses ==
    TransientFailures \cup ErrorCodes \cup {"access_token", "empty_token", "empty_body"}

\* An update that records the error status without its message.
FlowError_NoMessage(f, msg) == [f EXCEPT !.status = "error", !.message = <<"error", "">>]

\* flow.update({"status": "error", "message": ...})
FlowError(f, msg) == [f EXCEPT !.status = "error", !.message = msg]

\* poll_and_create_pr: what the loop does with the answer to a token request.
\* next: the position of the loop afterwards.
WebOnResponse_KeepPolling(f, iv, r) ==
    IF r \in TransientFailures
    THEN [flow |-> FlowError(f, <<"Error polling token", r>>), interval |-> iv,
          next |-> "check"]
    ELSE IF r \in ErrorCodes
    THEN IF r = "authorization_pending"
         THEN [flow |-> f, interval |-> iv, next |-> "check"]
         ELSE IF r = "slow_down"
         THEN [flow |-> f, interval |-> iv + SLOW_DOWN_INCREMENT, next |-> "check"]
         ELSE [flow |-> FlowError(f, <<"OAuth error", r>>), interval |-> iv,
               next |-> "check"]
    ELSE IF r \in {"empty_token", "empty_body"}
    THEN [flow |-> FlowError(f, <<"No access token returned.", "">>),
          interval |-> iv, next |-> "check"]
    ELSE [flow |-> [f EXCEPT !.access_token = TheToken], interval |-> iv,
          next |-> "set_status"]

\* A loop that treats slow_down like any other error code.
WebOnResponse_SlowDownIsFatal(f, iv, r) ==
    IF r \in TransientFailures
    THEN [flow |-> FlowError(f, <<"Error polling token", r>>), interval |-> iv,
          next |-> "returned"]
    ELSE IF r \in ErrorCodes
    THEN IF r = "authorization_pending"
         THEN [flow |-> f, interval |-> iv, next |-> "check"]
         ELSE [flow |-> FlowError(f, <<"OAuth error", r>>), interval |-> iv,
               next |-> "returned"]
    ELSE IF r \in {"empty_token", "empty_body"}
    THEN [flow |-> FlowError(f, <<"No access token returned.", "">>),
          interval |-> iv, next |-> "returned"]
    ELSE [flow |-> [f EXCEPT !.access_token = TheToken], interval |-> iv,
          next |-> "set_status"]

WebOnResponse(f, iv, r) ==
    IF r \in TransientFailures
    THEN [flow |-> FlowError(f, <<"Error polling token", r>>), interval |-> iv,
          next |-> "returned"]
    ELSE IF r \in ErrorCodes
    THEN IF r = "authorization_pending"
         THEN [flow |-> f, interval |-> iv, next |-> "check"]
         ELSE IF r = "slow_down"
         THEN [flow |-> f, interval |-> iv + SLOW_DOWN_INCREMENT, next |-> "check"]
         ELSE [flow |-> FlowError(f, <<"OAuth error", r>>), interval |-> iv,
               next |-> "returned"]
    ELSE IF r \in {"empty_token", "empty_body"}
    THEN [flow |-> FlowError(f, <<"No access token returned.", "">>),
          interval |-> iv, next |-> "returned"]
    ELSE [flow |-> [f EXCEPT !.access_token = TheToken], interval |-> iv,
          next |-> "set_status"]

\* get_github_oauth_token: what the loop does with the answer to a token
\* request.  ret: the value returned ("running" while the loop goes on).
CliOnResponse(iv, r) ==
    IF r \in TransientFailures
    THEN [ret |-> "running", printed |-> <<"Error polling for access token", "">>,
          interval |-> iv, next |-> "check"]
    ELSE IF r \in ErrorCodes
    THEN IF r = "authorization_pending"
         THEN [ret |-> "running", printed |-> <<None, None>>, interval |-> iv, next |-> "check"]
         ELSE IF r = "slow_down"
         THEN [ret |-> "running", printed |-> <<None, None>>,
               interval |-> iv + SLOW_DOWN_INCREMENT, next |-> "check"]
         ELSE IF r = "expired_token"
         THEN [ret |-> None, printed |-> <<"Device code expired while polling", "">>,
               interval |-> iv, next |-> "returned"]
         ELSE IF r = "access_denied"
         THEN [ret |-> None, printed |-> <<"Authorization denied by the user", "">>,
               interval |-> iv, next |-> "returned"]
         ELSE [ret |-> None, printed |-> <<"GitHub OAuth Error", r>>,
               interval |-> iv, next |-> "returned"]
    ELSE IF r = "access_token"
    THEN [ret |-> TheToken, printed |-> <<"Successfully authorized", "">>,
          interval |-> iv, next |-> "returned"]
    ELSE IF r = "empty_token"
    THEN [ret |-> "", printed |-> <<"Successfully authorized", "">>,
          interval |-> iv, next |-> "returned"]
    ELSE [ret |-> "running", printed |-> <<None, None>>, interval |-> iv, next |-> "check"]

\* The position of the web loop after flow.update({"status": "authorized"}).
WebAfterAuthorized_KeepPolling == "check"

WebAfterAuthorized == "returned"

\* The device-code request fails, or its answer lacks a required field: the CLI
\* returns None, start_pr answers 500 and stores no flow.
DeviceCodeFails ==
    /\ oauth.pc = "start"
    /\ oauth' = [oauth EXCEPT !.pc = "returned",
                    !.ret = IF oauth.impl = "cli" THEN None ELSE "500",
                    !.printed = <<"Error requesting device code", "">>]
    /\ UNCHANGED <<flow, req, now>>
    /\ UNCHANGED notOAuthVars

\* The device-code request succeeds.  CLI: start_time = time.time() and the
\* loop starts.  Web: start_pr stores the flow with expires_at = time.time() +
\* expires_in and spawns poll_and_create_pr.
DeviceCodeGranted ==
    /\ oauth.pc = "start"
    /\ \E e \in ExpiresInOffers, i \in IntervalOffers :
          oauth' = [oauth EXCEPT
              !.pc = "check",
              !.ret = "running",
              !.start_time = now,
              !.interval = IF i = Absent THEN DEFAULT_INTERVAL ELSE i,
              !.expires_in =
                  IF e # Absent THEN e
                  ELSE IF oauth.impl = "cli" THEN CLI_DEFAULT_EXPIRES_IN
                  ELSE WEB_DEFAULT_EXPIRES_IN]
    /\ flow' = IF oauth.impl = "web"
               THEN [NoFlow EXCEPT !.status = "waiting_for_user",
                        !.message = <<"Waiting for user authorization", "">>]
               ELSE flow
    /\ UNCHANGED <<req, now>>
    /\ UNCHANGED notOAuthVars

\* flow["expires_at"] = time.time() + expires_in
ExpiresAt == oauth.start_time + oauth.expires_in

\* CLI: if time.time() - start_time > expires_in: return None
CliCheck ==
    /\ oauth.impl = "cli" /\ oauth.pc = "check"
    /\ IF now - oauth.start_time > oauth.expires_in
       THEN oauth' = [oauth EXCEPT !.pc = "returned", !.ret = None,
                         !.printed = <<"Device code expired", "">>]
       ELSE oauth' = [oauth EXCEPT !.pc = "sleep"]
    /\ UNCHANGED <<flow, req, now>>
    /\ UNCHANGED notOAuthVars

\* Web: while time.time() < expires_at ... else "Authorization timed out."
WebCheck ==
    /\ oauth.impl = "web" /\ oauth.pc = "check"
    /\ IF now < ExpiresAt
       THEN /\ oauth' = [oauth EXCEPT !.pc = "sleep"]
            /\ flow' = flow
       ELSE /\ oauth' = [oauth EXCEPT !.pc = "returned"]
            /\ flow' = FlowError(flow, <<"Authorization timed out.", "">>)
    /\ UNCHANGED <<req, now>>
    /\ UNCHANGED notOAuthVars

\* time.sleep(interval)
Sleep ==
    /\ oauth.pc = "sleep"
    /\ now' = now + oauth.interval
    /\ oauth' = [oauth EXCEPT !.pc = "request"]
    /\ UNCHANGED <<flow, req>>
    /\ UNCHANGED notOAuthVars

\* CLI: requests.post(GITHUB_ACCESS_TOKEN_URL, ...) and the handling of its answer.
CliRequest ==
    /\ oauth.impl = "cli" /\ oauth.pc = "request"
    /\ \E r \in TokenResponses :
          LET o == CliOnResponse(oauth.interval, r) IN
          /\ oauth' = [oauth EXCEPT !.pc = o.next, !.ret = o.ret,
                           !.printed = o.printed, !.interval = o.interval]
          /\ req' = [count |-> req.count + 1, lastAt |-> now, lastResp |-> r,
                     slowDowns |-> req.slowDowns + (IF r = "slow_down" THEN 1 ELSE 0)]
    /\ UNCHANGED <<flow, now>>
    /\ UNCHANGED notOAuthVars

\* Web: requests.post(GITHUB_ACCESS_TOKEN_URL, ...) and the handling of its
\* answer, up to and including flow["access_token"] = access_token.
WebRequest ==
    /\ oauth.impl = "web" /\ oauth.pc = "request"
    /\ \E r \in TokenResponses :
          LET o == WebOnResponse(flow, oauth.interval, r) IN
          /\ oauth' = [oauth EXCEPT !.pc = o.next, !.interval = o.interval]
          /\ flow' = o.flow
          /\ req' = [count |-> req.count + 1, lastAt |-> now, lastResp |-> r,
                     slowDowns |-> req.slowDowns + (IF r = "slow_down" THEN 1 ELSE 0)]
    /\ UNCHANGED now
    /\ UNCHANGED notOAuthVars

\* Web: flow.update({"status": "authorized", ...}); return
WebSetStatus ==
    /\ oauth.impl = "web" /\ oauth.pc = "set_status"
    /\ flow' = [flow EXCEPT !.status = "authorized",
                    !.message = <<"Authorized. Ready to create PR.", "">>]
    /\ oauth' = [oauth EXCEPT !.pc = WebAfterAuthorized]
    /\ UNCHANGED <<req, now>>
    /\ UNCHANGED notOAuthVars

\* Web: submit_pr stores the title and body in the flow (the pull request it
\* creates for an authorized flow is the pipeline's, below).
SubmitPr ==
    /\ oauth.impl = "web" /\ flow.status # None
    /\ \E t \in {"title"}, b \in {"body"} :
          /\ flow.pr_title # t
          /\ flow' = [flow EXCEPT !.pr_title = t, !.pr_body = b]
    /\ UNCHANGED <<oauth, req, now>>
    /\ UNCHANGED notOAuthVars

InitOAuth ==
    /\ web = NoWeb
    /\ scr = NoScrape
    /\ repo = << >>
    /\ cli = NoCli
    /\ VERSION_CACHE = << >>
    /\ entryBy = << >>
    /\ lru = [fn \in {"get_latest_version", "get_latest_npm_version"} |-> << >>]
    /\ now = 0
    /\ ticks = 0
    /\ pc = [w \in {"w1", "w2"} |-> "idle"]
    /\ frame = << >>
    /\ nCalls = 0
    /\ written = {}
    /\ \E i \in Impls : oauth = [NoSession EXCEPT !.impl = i, !.pc = "start"]
    /\ flow = NoFlow
    /\ req = NoRequests
    /\ prq = NoInvocation
    /\ remote = NoRemote
    /\ prlog = << >>
    /\ batch = NoBatch
    /\ task = << >>
    /\ vc = NoCall

NextOAuth ==
    \/ DeviceCodeFails
    \/ DeviceCodeGranted
    \/ CliCheck
    \/ WebCheck
    \/ Sleep
    \/ CliRequest
    \/ WebRequest
    \/ WebSetStatus
    \/ SubmitPr

SpecOAuth == InitOAuth /\ [][NextOAuth]_vars

\* The state of the session, as the device flow names it.
SessionState ==
    IF oauth.pc = "start" THEN "Requested"
    ELSE IF oauth.impl = "web"
    THEN IF flow.status = None THEN "Error"        \* start_pr answered 500
         ELSE IF flow.status = "waiting_for_user" THEN "AwaitingUser"
         ELSE IF flow.status = "authorized" THEN "Authorized"
         ELSE IF flow.message = <<"OAuth error", "access_denied">> THEN "Denied"
         ELSE IF flow.message \in {<<"OAuth error", "expired_token">>,
                                   <<"Authorization timed out.", "">>}
         THEN "Expired"
         ELSE "Error"
    ELSE IF oauth.ret = "running" THEN "AwaitingUser"
         ELSE IF oauth.ret = TheToken THEN "Authorized"
         ELSE IF oauth.printed[1] = "Authorization denied by the user" THEN "Denied"
         ELSE IF oauth.printed[1] \in {"Device code expired",
                                    "Device code expired while polling"}
         THEN "Expired"
         ELSE "Error"

\* The session holds an access token.
HoldsToken ==
    IF oauth.impl = "web" THEN flow.access_token = TheToken
    ELSE oauth.ret = TheToken

TerminalStates == {"Authorized", "Denied", "Expired", "Error"}
FailureStates == {"Denied", "Expired", "Error"}

\* C1: in both polling loops a transport or JSON-decoding failure of a token
\* request is transient: the session stays AwaitingUser and the loop goes back
\* to its head to poll again.
C1_TransientFailureKeepsPolling ==
    [][(req'.count = req.count + 1 /\ req'.lastResp \in TransientFailures)
          => (SessionState' = "AwaitingUser" /\ oauth'.pc = "check")]_vars

\* C8: once the session is in a terminal state, its state never changes again
\* and no further token request is issued; an AwaitingUser session never goes
\* back to Requested.
C8_TerminalIsFinal ==
    [][/\ SessionState \in TerminalStates
            => (SessionState' = SessionState /\ req' = req)
       /\ SessionState = "AwaitingUser" => SessionState' # "Requested"]_vars

\* A web session that ended Denied after several polls, and whose flow a
\* later submit_pr has written to.
C8_Witness ==
    /\ oauth.impl = "web" /\ oauth.pc = "returned"
    /\ SessionState = "Denied"
    /\ req.count >= 2
    /\ flow.pr_title # None

\* C9: a session never holds both an access token and a terminal failure
\* state (Denied, Expired or Error).
C9_NoTokenInFailureState ==
    ~(HoldsToken /\ SessionState \in FailureStates)

\* A web session that holds the token, granted after an earlier poll.
C9_Witness ==
    /\ oauth.impl = "web" /\ HoldsToken
    /\ SessionState = "Authorized"
    /\ req.count >= 2

PollStep ==
    CliCheck \/ WebCheck \/ Sleep \/ CliRequest \/ WebRequest \/ WebSetStatus

SpecOAuthLive == InitOAuth /\ [][NextOAuth]_vars /\ WF_vars(PollStep)

\* Every token request of the session so far was answered with slow_down.
OnlySlowDown == req.slowDowns = req.count

\* C11: a session in AwaitingUser whose every poll is answered with slow_down
\* eventually becomes Expired with the polling loop returned, and a session in
\* AwaitingUser never goes back to Requested.
C11_SlowDownEndsExpired ==
    /\ (SessionState = "AwaitingUser")
          ~> ((SessionState = "Expired" /\ oauth.pc = "returned") \/ ~OnlySlowDown)
    /\ [][SessionState = "AwaitingUser" => SessionState' # "Requested"]_vars

\* A session that expired after at least two polls, all answered with slow_down.
C11_Witness ==
    /\ SessionState = "Expired" /\ oauth.pc = "returned"
    /\ OnlySlowDown /\ req.count >= 2
    /\ oauth.interval >= DEFAULT_INTERVAL + 2 * SLOW_DOWN_INCREMENT - 1

\* C12: a token request answered with authorization_pending leaves the state
\* AwaitingUser and the poll interval unchanged; one answered with slow_down
\* leaves the state AwaitingUser and adds exactly 5 to the poll interval; the
\* poll interval never decreases.
C12_PendingAndSlowDown ==
    [][/\ (req'.count = req.count + 1 /\ req'.lastResp = "authorization_pending")
            => /\ SessionState = "AwaitingUser" /\ SessionState' = "AwaitingUser"
               /\ oauth'.interval = oauth.interval
       /\ (req'.count = req.count + 1 /\ req'.lastResp = "slow_down")
            => /\ SessionState = "AwaitingUser" /\ SessionState' = "AwaitingUser"
               /\ oauth'.interval = oauth.interval + 5
       /\ oauth'.interval >= oauth.interval]_vars

\* A session still waiting after one slow_down and one authorization_pending:
\* its interval is the device-code response's (4, or the default 5) plus 5.
C12_Witness ==
    /\ SessionState = "AwaitingUser" /\ oauth.pc = "check"
    /\ req.count = 2 /\ req.slowDowns = 1 /\ req.lastResp = "authorization_pending"
    /\ oauth.interval \in {4 + 5, DEFAULT_INTERVAL + 5}

\* The error code a terminal session carries: in the flow's message (web) or in
\* the error printed before None is returned (CLI).
CarriedCode == IF oauth.impl = "web" THEN flow.message[2] ELSE oauth.printed[2]

\* C13: when the loop returns on the answer to a token request, access_denied
\* has led to Denied without a token, any error code other than
\* authorization_pending, slow_down, expired_token and access_denied has led to
\* Error carrying that code, and a body with an access token has led to
\* Authorized holding that token.
C13_ResponseToTerminalState ==
    (oauth.pc = "returned" /\ req.count > 0) =>
        /\ req.lastResp = "access_denied"
              => (SessionState = "Denied" /\ ~HoldsToken)
        /\ req.lastResp \in ErrorCodes \ {"authorization_pending", "slow_down",
                                           "expired_token", "access_denied"}
              => (SessionState = "Error" /\ CarriedCode = req.lastResp /\ ~HoldsToken)
        /\ req.lastResp = "access_token"
              => (SessionState = "Authorized" /\ HoldsToken)

\* A web session that returned on access_denied after an earlier poll.
C13_Witness ==
    /\ oauth.impl = "web" /\ oauth.pc = "returned" /\ req.count >= 2
    /\ req.lastResp = "access_denied" /\ SessionState = "Denied"

(***************************************************************************)
(* Registry version cache                                                  *)
(***************************************************************************)

\* constants.py: CACHE_EXPIRY = 3600
CACHE_EXPIRY == 3600

\* @lru_cache(maxsize=1000)
LRU_MAXSIZE == 1000

\* Bounds of the model.
MaxCalls == 3
MaxTicks == 2

Workers == {"w1", "w2"}
Packages == {"foo"}
LookupFns == {"get_latest_version", "get_latest_npm_version"}

\* What a registry may publish as the latest version of a package.
RegistryVersions(fn) ==
    IF fn = "get_latest_version" THEN {"1.0.0", "1.2.0"} ELSE {"2.0.0"}

\* The outcomes of requests.get(...) followed by the JSON field access.
HttpOutcomes(fn) ==
    {[status |-> 200, version |-> v] : v \in RegistryVersions(fn)}
        \cup {[status |-> 404, version |-> None],
              [status |-> 0, version |-> None]}    \* 0: an exception was raised

\* How far the clock may move in one step.
TickSteps == {1, CACHE_EXPIRY - 1}

NoEntry == <<None, -1>>

\* current_time - timestamp < CACHE_EXPIRY
IsFresh(current_time, entry) == current_time - entry[2] < CACHE_EXPIRY

\* A store that replaces the version of an existing entry and keeps its timestamp.
CacheStore_KeepTimestamp(cache, p, v, t) ==
    [q \in DOMAIN cache \cup {p} |->
        IF q = p THEN (IF p \in DOMAIN cache THEN <<v, cache[p][2]>> ELSE <<v, t>>)
        ELSE cache[q]]

\* VERSION_CACHE[package_name] = (latest_version, current_time)
CacheStore(cache, p, v, t) ==
    [q \in DOMAIN cache \cup {p} |-> IF q = p THEN <<v, t>> ELSE cache[q]]

\* lru_cache: the position of key in the cache, 0 when absent.
LruIndex(c, key) ==
    IF \E i \in 1..Len(c) : c[i][1] = key
    THEN CHOOSE i \in 1..Len(c) : c[i][1] = key
    ELSE 0

RemoveAt(s, i) == SubSeq(s, 1, i - 1) \o SubSeq(s, i + 1, Len(s))

\* lru_cache hit: the entry becomes the most recently used.
LruTouch(c, key) ==
    LET i == LruIndex(c, key) IN Append(RemoveAt(c, i), c[i])

\* lru_cache after the wrapped call returned: the result is stored unless the
\* key was added meanwhile; the oldest entry is evicted when the cache is full.
LruInsert(c, key, result) ==
    IF LruIndex(c, key) # 0 THEN c
    ELSE IF Len(c) >= LRU_MAXSIZE THEN Append(Tail(c), <<key, result>>)
    ELSE Append(c, <<key, result>>)

IdleFrame ==
    [fn |-> None, p |-> None, current_time |-> 0, entry |-> NoEntry,
     latest |-> None, result |-> None, http |-> FALSE,
     freshAtCall |-> NoEntry, staleAtCall |-> FALSE, otherAtCall |-> FALSE,
     disturbed |-> FALSE]

\* A worker calls get_latest_version / get_latest_npm_version: the lru_cache
\* wrapper answers a memoized key without running the function.
CallMemoized(w, fn, p) ==
    /\ pc[w] \in {"idle", "done"}
    /\ nCalls < MaxCalls
    /\ LruIndex(lru[fn], p) # 0
    /\ LET hit == p \in DOMAIN VERSION_CACHE /\ IsFresh(now, VERSION_CACHE[p]) IN
       frame' = [frame EXCEPT ![w] =
           [IdleFrame EXCEPT !.fn = fn, !.p = p, !.current_time = now,
               !.result = lru[fn][LruIndex(lru[fn], p)][2],
               !.freshAtCall = IF hit THEN VERSION_CACHE[p] ELSE NoEntry,
               !.staleAtCall = p \in DOMAIN VERSION_CACHE /\ ~hit,
               !.otherAtCall = hit /\ entryBy[p] # fn]]
    /\ lru' = [lru EXCEPT ![fn] = LruTouch(lru[fn], p)]
    /\ pc' = [pc EXCEPT ![w] = "done"]
    /\ nCalls' = nCalls + 1
    /\ UNCHANGED <<VERSION_CACHE, entryBy, now, ticks, written>>
    /\ UNCHANGED notCacheVars

\* The key is not memoized: the function body starts, current_time = time.time().
CallBody(w, fn, p) ==
    /\ pc[w] \in {"idle", "done"}
    /\ nCalls < MaxCalls
    /\ LruIndex(lru[fn], p) = 0
    /\ LET hit == p \in DOMAIN VERSION_CACHE /\ IsFresh(now, VERSION_CACHE[p]) IN
       frame' = [frame EXCEPT ![w] =
           [IdleFrame EXCEPT !.fn = fn, !.p = p, !.current_time = now,
               !.freshAtCall = IF hit THEN VERSION_CACHE[p] ELSE NoEntry,
               !.staleAtCall = p \in DOMAIN VERSION_CACHE /\ ~hit,
               !.otherAtCall = hit /\ entryBy[p] # fn]]
    /\ pc' = [pc EXCEPT ![w] = "member"]
    /\ nCalls' = nCalls + 1
    /\ UNCHANGED <<VERSION_CACHE, entryBy, lru, now, ticks, written>>
    /\ UNCHANGED notCacheVars

\* if package_name in VERSION_CACHE:
CheckMember(w) ==
    /\ pc[w] = "member"
    /\ pc' = [pc EXCEPT ![w] =
           IF frame[w].p \in DOMAIN VERSION_CACHE THEN "read" ELSE "http"]
    /\ UNCHANGED <<VERSION_CACHE, entryBy, lru, now, ticks, frame, nCalls, written>>
    /\ UNCHANGED notCacheVars

\* cached_version, timestamp = VERSION_CACHE[package_name]
\* if current_time - timestamp < CACHE_EXPIRY: return cached_version
ReadEntry(w) ==
    /\ pc[w] = "read"
    /\ LET e == VERSION_CACHE[frame[w].p] IN
       IF IsFresh(frame[w].current_time, e)
       THEN /\ frame' = [frame EXCEPT ![w].entry = e, ![w].result = e[1]]
            /\ pc' = [pc EXCEPT ![w] = "return"]
       ELSE /\ frame' = [frame EXCEPT ![w].entry = e]
            /\ pc' = [pc EXCEPT ![w] = "http"]
    /\ UNCHANGED <<VERSION_CACHE, entryBy, lru, now, ticks, nCalls, written>>
    /\ UNCHANGED notCacheVars

\* response = requests.get(...): 200 with a version, another status, or an
\* exception (both of the latter return None).
HttpGet(w) ==
    /\ pc[w] = "http"
    /\ \E r \in HttpOutcomes(frame[w].fn) :
          IF r.status = 200
          THEN /\ frame' = [frame EXCEPT ![w].http = TRUE, ![w].latest = r.version]
               /\ pc' = [pc EXCEPT ![w] = "store"]
          ELSE /\ frame' = [frame EXCEPT ![w].http = TRUE, ![w].result = None]
               /\ pc' = [pc EXCEPT ![w] = "return"]
    /\ UNCHANGED <<VERSION_CACHE, entryBy, lru, now, ticks, nCalls, written>>
    /\ UNCHANGED notCacheVars

\* VERSION_CACHE[package_name] = (latest_version, current_time); return latest_version
Store(w) ==
    /\ pc[w] = "store"
    /\ VERSION_CACHE' = CacheStore(VERSION_CACHE, frame[w].p, frame[w].latest,
                                   frame[w].current_time)
    /\ entryBy' = [q \in DOMAIN entryBy \cup {frame[w].p} |->
                      IF q = frame[w].p THEN frame[w].fn ELSE entryBy[q]]
    /\ written' = written \cup
           {[p |-> frame[w].p, version |-> frame[w].latest,
             timestamp |-> frame[w].current_time, by |-> w]}
    /\ frame' = [v \in Workers |->
           IF v = w THEN [frame[w] EXCEPT !.result = frame[w].latest]
           ELSE IF pc[v] \notin {"idle", "done"} /\ frame[v].p = frame[w].p
                THEN [frame[v] EXCEPT !.disturbed = TRUE]
                ELSE frame[v]]
    /\ pc' = [pc EXCEPT ![w] = "return"]
    /\ UNCHANGED <<lru, now, ticks, nCalls>>
    /\ UNCHANGED notCacheVars

\* The function returns through the lru_cache wrapper, which memoizes the result.
Return(w) ==
    /\ pc[w] = "return"
    /\ lru' = [lru EXCEPT ![frame[w].fn] =
           LruInsert(lru[frame[w].fn], frame[w].p, frame[w].result)]
    /\ pc' = [pc EXCEPT ![w] = "done"]
    /\ UNCHANGED <<VERSION_CACHE, entryBy, now, ticks, frame, nCalls, written>>
    /\ UNCHANGED notCacheVars

\* Time passes.
Tick ==
    /\ ticks < MaxTicks
    /\ \E d \in TickSteps : now' = now + d
    /\ ticks' = ticks + 1
    /\ UNCHANGED <<VERSION_CACHE, entryBy, lru, pc, frame, nCalls, written>>
    /\ UNCHANGED notCacheVars

InitCache ==
    /\ web = NoWeb
    /\ scr = NoScrape
    /\ repo = << >>
    /\ cli = NoCli
    /\ VERSION_CACHE = << >>
    /\ entryBy = << >>
    /\ lru = [fn \in LookupFns |-> << >>]
    /\ now = 0
    /\ ticks = 0
    /\ pc = [w \in Workers |-> "idle"]
    /\ frame = [w \in Workers |-> IdleFrame]
    /\ nCalls = 0
    /\ written = {}
    /\ oauth = NoSession
    /\ flow = NoFlow
    /\ req = NoRequests
    /\ prq = NoInvocation
    /\ remote = NoRemote
    /\ prlog = << >>
    /\ batch = NoBatch
    /\ task = << >>
    /\ vc = NoCall

NextCache ==
    \/ \E w \in Workers, fn \in LookupFns, p \in Packages : CallMemoized(w, fn, p)
    \/ \E w \in Workers, fn \in LookupFns, p \in Packages : CallBody(w, fn, p)
    \/ \E w \in Workers : CheckMember(w)
    \/ \E w \in Workers : ReadEntry(w)
    \/ \E w \in Workers : HttpGet(w)
    \/ \E w \in Workers : Store(w)
    \/ \E w \in Workers : Return(w)
    \/ Tick

SpecCache == InitCache /\ [][NextCache]_vars

\* A lookup that has returned to its caller.
Returned(w) == pc[w] = "done"

\* C3: a failed registry lookup is never cached: a lookup that returns no
\* version has made its own HTTP request (so a later call, after a failure,
\* asks the registry again and returns the version if it now answers 200).
C3_FailureNeverCached ==
    \A w \in Workers :
        Returned(w) /\ frame[w].result = None => frame[w].http

\* C4: a cached version is reused only within its TTL: a lookup called when the
\* entry of its package is older than CACHE_EXPIRY (and that no concurrent
\* store overtakes) makes a new HTTP request.
C4_ExpiredEntryRefetched ==
    \A w \in Workers :
        Returned(w) /\ frame[w].staleAtCall /\ ~frame[w].disturbed
            => frame[w].http

\* C5: the two registries share one cache space: a lookup called while the
\* package's entry, stored by the other registry's lookup, is within its TTL
\* returns that entry's version without contacting its own registry.
C5_OtherRegistryEntryServed ==
    \A w \in Workers :
        Returned(w) /\ frame[w].otherAtCall /\ ~frame[w].disturbed
            => /\ ~frame[w].http
               /\ frame[w].result = frame[w].freshAtCall[1]

\* C6: on a cache hit within the TTL (now - timestamp < CACHE_EXPIRY) the
\* lookup returns the cached version and issues no HTTP request.
C6_FreshHitReturnsCachedVersion ==
    \A w \in Workers :
        Returned(w) /\ frame[w].freshAtCall # NoEntry /\ ~frame[w].disturbed
            => /\ frame[w].result = frame[w].freshAtCall[1]
               /\ ~frame[w].http

IsWritten(p, e) ==
    \E x \in written : x.p = p /\ x.version = e[1] /\ x.timestamp = e[2]

\* C7: under every interleaving of the workers, each cache entry, and each
\* entry a reader has unpacked, is a whole (version, timestamp) pair stored by
\* one worker: never one writer's version with another writer's timestamp.
C7_EntriesAreWholePairs ==
    /\ \A p \in DOMAIN VERSION_CACHE : IsWritten(p, VERSION_CACHE[p])
    /\ \A w \in Workers :
          frame[w].entry # NoEntry => IsWritten(frame[w].p, frame[w].entry)

\* Two workers in flight at once have stored different pairs under one key, the
\* entry is the later writer's, and one of them had unpacked an older entry.
C7_Witness ==
    \E w1 \in Workers, w2 \in Workers :
        /\ w1 # w2 /\ pc[w1] = "return" /\ pc[w2] = "return"
        /\ frame[w1].p = frame[w2].p
        /\ frame[w1].latest # None /\ frame[w2].latest # None
        /\ frame[w1].latest # frame[w2].latest
        /\ frame[w1].current_time # frame[w2].current_time
        /\ VERSION_CACHE[frame[w2].p] = <<frame[w2].latest, frame[w2].current_time>>
        /\ frame[w1].entry # NoEntry

(***************************************************************************)
(* Registry checks: check_package_version and the batch of                 *)
(* check_updates_parallel                                                   *)
(***************************************************************************)

\* A version or version-specifier string: an operator prefix, the dotted
\* numbers that follow it, and the text after them.  "==1.0.*" is
\* Str("==", <<1, 0>>, ".*"); two strings are equal when all three parts are.
Str(op, rel, extra) == [op |-> op, rel |-> rel, extra |-> extra]

EmptyStr == Str("", << >>, "")
NoneStr == Str("", << >>, None)
AnyStr == Str("", << >>, "ANY")

\* not s
IsFalsy(s) == s \in {EmptyStr, NoneStr}

\* any(c in s for c in ('>', '<', '*', 'x', 'X', '||'))
HasRangeChar(s) == s.op \in {">=", "<"} \/ s.extra \in {"*", ".*", ".x"}

\* s is a PEP 440 version: dotted numbers and nothing else.
IsValidVersion(s) == s.op = "" /\ s.rel # << >> /\ s.extra = ""

\* The packaging library installed: since 22.0 version.parse raises
\* InvalidVersion for a string that is not a PEP 440 version; before, it
\* returns a LegacyVersion, which sorts before every PEP 440 version, and two
\* legacy versions are ordered by their text (legacy_gt: the first is greater).
Parsers == [legacy : BOOLEAN, legacy_gt : BOOLEAN]
Pep440Parser == [legacy |-> FALSE, legacy_gt |-> FALSE]

\* version.parse(s) does not raise InvalidVersion.
Parses(s, parser) == IsValidVersion(s) \/ parser.legacy

\* The i-th number of a release, 0 beyond its end (1.0 == 1.0.0).
Component(rel, i) == IF i <= Len(rel) THEN rel[i] ELSE 0

\* A comparison that looks at the first number only.
VersionGreater_MajorOnly(a, b) == Component(a.rel, 1) > Component(b.rel, 1)

\* version.parse(a) > version.parse(b), for two PEP 440 versions
VersionGreater(a, b) ==
    LET n == IF Len(a.rel) > Len(b.rel) THEN Len(a.rel) ELSE Len(b.rel) IN
    \E i \in 1..n :
        /\ Component(a.rel, i) > Component(b.rel, i)
        /\ \A j \in 1..(i - 1) : Component(a.rel, j) = Component(b.rel, j)

\* parsed_latest > parsed_spec, for two strings that parse
ParsedGreater(latest, parsed, parser) ==
    IF IsValidVersion(latest) /\ IsValidVersion(parsed) THEN VersionGreater(latest, parsed)
    ELSE IF IsValidVersion(latest) THEN TRUE
    ELSE IF IsValidVersion(parsed) THEN FALSE
    ELSE latest # parsed /\ parser.legacy_gt

\* A parse that keeps the whole match of the npm pattern, prefix included.
ParsedSpec_KeepPrefix(spec, dep_type) ==
    IF dep_type = "npm"
    THEN IF ~IsFalsy(spec) /\ ~HasRangeChar(spec) THEN spec ELSE NoneStr
    ELSE IF dep_type = "pip"
    THEN IF spec.op = "==" THEN Str("", spec.rel, spec.extra) ELSE NoneStr
    ELSE NoneStr

\* parsed_spec_version_str (NoneStr when the spec is not taken as a version).
\* npm: group(1) of [\^~]?([0-9]+\.[0-9]+\.[0-9]+.*), else the whole spec when
\* it has no range character.  pip: what follows "==", stripped.
ParsedSpec(spec, dep_type) ==
    IF dep_type = "npm"
    THEN IF spec.op \in {"^", "~", ""} /\ Len(spec.rel) >= 3
         THEN Str("", spec.rel, spec.extra)
         ELSE IF ~IsFalsy(spec) /\ ~HasRangeChar(spec) THEN spec
         ELSE NoneStr
    ELSE IF dep_type = "pip"
    THEN IF spec.op = "==" THEN Str("", spec.rel, spec.extra) ELSE NoneStr
    ELSE NoneStr

\* A policy that reports nothing for a declaration without a spec.
AddToTable_SkipUnspecified(spec, dep_type, latest, parser) ==
    LET parsed == ParsedSpec(spec, dep_type) IN
    IF ~IsFalsy(parsed)
    THEN IF Parses(parsed, parser) /\ Parses(latest, parser)
         THEN ParsedGreater(latest, parsed, parser)
         ELSE latest # spec
    ELSE latest # spec /\ spec # AnyStr /\ ~IsFalsy(spec)

\* add_to_table
AddToTable(spec, dep_type, latest, parser) ==
    LET parsed == ParsedSpec(spec, dep_type) IN
    IF ~IsFalsy(parsed)
    THEN IF Parses(parsed, parser) /\ Parses(latest, parser)
         THEN ParsedGreater(latest, parsed, parser)
         ELSE latest # spec
    ELSE (latest # spec /\ spec # AnyStr) \/ spec = AnyStr

\* A table that shows "ANY" for every spec that is not a parsed pin.
Displayed_AnyUnlessPinned(spec, dep_type, latest, parser) ==
    LET parsed == ParsedSpec(spec, dep_type) IN
    IF ~IsFalsy(parsed) /\ Parses(parsed, parser) /\ Parses(latest, parser)
    THEN parsed
    ELSE AnyStr

\* current_version_for_table
Displayed(spec, dep_type, latest, parser) ==
    LET parsed == ParsedSpec(spec, dep_type) IN
    IF ~IsFalsy(parsed) /\ Parses(parsed, parser) /\ Parses(latest, parser)
    THEN parsed
    ELSE IF IsFalsy(spec) THEN AnyStr ELSE spec

\* What check_package_version gives back: a candidate, nothing, or a TypeError
\* (re.match / the in operator on a spec that is None).
NoCandidate == << >>
Raised == <<"TypeError">>

\* A check that reports every package whose latest version was found.
check_package_version_ReportAll(package_name, version_spec_from_req, dep_type, latest_version_str, parser) ==
    IF IsFalsy(latest_version_str) THEN NoCandidate
    ELSE IF version_spec_from_req = NoneStr /\ dep_type \in {"npm", "pip"} THEN Raised
    ELSE <<package_name,
           Displayed(version_spec_from_req, dep_type, latest_version_str, parser),
           latest_version_str>>

\* check_package_version, from the latest version its lookup returned.
check_package_version(package_name, version_spec_from_req, dep_type, latest_version_str, parser) ==
    IF IsFalsy(latest_version_str) THEN NoCandidate
    ELSE IF version_spec_from_req = NoneStr /\ dep_type \in {"npm", "pip"} THEN Raised
    ELSE LET shown == Displayed(version_spec_from_req, dep_type, latest_version_str, parser) IN
         IF /\ AddToTable(version_spec_from_req, dep_type, latest_version_str, parser)
            /\ latest_version_str # shown
         THEN <<package_name, shown, latest_version_str>>
         ELSE NoCandidate

\* An InvalidVersion that version.parse raises out of check_installed_package.
RaisedInvalid == <<"InvalidVersion">>

\* local.py: check_installed_package, from the latest version its lookup returned.
check_installed_package(package, current_version, latest_version, parser) ==
    IF IsFalsy(latest_version) THEN NoCandidate
    ELSE IF ~(Parses(latest_version, parser) /\ Parses(current_version, parser))
    THEN RaisedInvalid
    ELSE IF ParsedGreater(latest_version, current_version, parser)
    THEN <<package, current_version, latest_version>>
    ELSE NoCandidate

\* The strings of the model.
V100 == Str("", <<1, 0, 0>>, "")
V120 == Str("", <<1, 2, 0>>, "")
V195 == Str("", <<1, 9, 5>>, "")
V200 == Str("", <<2, 0, 0>>, "")
V130 == Str("", <<1, 3, 0>>, "")

LatestVersions == {V100, V120, V130, V195, V200, Str("", <<1, 2>>, ""), Str("", <<2004>>, "d")}

\* dist.version of an installed distribution
InstalledVersions == {V100, V120, V195, Str("", <<1, 2>>, ""), Str("", << >>, "latest")}

VersionSpecs ==
    { NoneStr, EmptyStr, AnyStr,
      Str("==", <<1, 0, 0>>, ""), Str("==", <<1, 2, 0>>, ""), Str("==", <<1, 2>>, ""),
      Str("==", <<1, 9, 5>>, ""), Str("^", <<1, 9, 5>>, ""),
      Str("==", <<1, 0>>, ".*"), Str("==", << >>, ""), Str(">=", <<1, 0, 0>>, ""),
      Str("^", <<1, 0, 0>>, ""), Str("~", <<1, 2, 0>>, ""), Str("^", <<1, 0>>, ""),
      V120, Str("", <<1, 2>>, ""), Str("", << >>, "latest"), Str("", << >>, "*") }

\* ---- one call of check_package_version ----

CallCheckPackageVersion ==
    /\ vc.pc = "call" /\ vc.fn = "check_package_version"
    /\ LET r == check_package_version("foo", vc.spec, vc.dep_type, vc.latest, vc.parser) IN
       vc' = [vc EXCEPT !.pc = IF r = Raised THEN "raised" ELSE "returned",
                        !.result = IF r = Raised THEN NoCandidate ELSE r]
    /\ UNCHANGED <<batch, task, VERSION_CACHE, lru>>
    /\ UNCHANGED notBatchVars

CallCheckInstalledPackage ==
    /\ vc.pc = "call" /\ vc.fn = "check_installed_package"
    /\ LET r == check_installed_package("foo", vc.spec, vc.latest, vc.parser) IN
       vc' = [vc EXCEPT !.pc = IF r = RaisedInvalid THEN "raised" ELSE "returned",
                        !.result = IF r = RaisedInvalid THEN NoCandidate ELSE r]
    /\ UNCHANGED <<batch, task, VERSION_CACHE, lru>>
    /\ UNCHANGED notBatchVars

InitVersionCheck ==
    /\ web = NoWeb
    /\ scr = NoScrape
    /\ repo = << >>
    /\ cli = NoCli
    /\ VERSION_CACHE = << >>
    /\ entryBy = << >>
    /\ lru = [fn \in LookupFns |-> << >>]
    /\ now = 0
    /\ ticks = 0
    /\ pc = [w \in Workers |-> "idle"]
    /\ frame = << >>
    /\ nCalls = 0
    /\ written = {}
    /\ oauth = NoSession
    /\ flow = NoFlow
    /\ req = NoRequests
    /\ prq = NoInvocation
    /\ remote = NoRemote
    /\ prlog = << >>
    /\ batch = NoBatch
    /\ task = << >>
    /\ \E latest \in LatestVersions \cup {NoneStr}, parser \in Parsers :
          \/ \E t \in {"pip", "npm", None}, spec \in VersionSpecs :
                vc = [NoCall EXCEPT !.pc = "call", !.fn = "check_package_version",
                         !.dep_type = t, !.spec = spec, !.latest = latest,
                         !.parser = parser]
          \/ \E current \in InstalledVersions :
                vc = [NoCall EXCEPT !.pc = "call", !.fn = "check_installed_package",
                         !.dep_type = "pip", !.spec = current, !.latest = latest,
                         !.parser = parser]

NextVersionCheck ==
    \/ CallCheckPackageVersion
    \/ CallCheckInstalledPackage

SpecVersionCheck == InitVersionCheck /\ [][NextVersionCheck]_vars

\* C20: check_package_version never returns a candidate whose latest version
\* equals the current version it displays.
C20_CandidateDiffersFromDisplayed ==
    (vc.pc = "returned" /\ vc.result # NoCandidate) => vc.result[3] # vc.result[2]

\* A pinned spec that is older than the latest version: a candidate is
\* returned, showing the pinned version without its operator.
C20_Witness ==
    /\ vc.pc = "returned" /\ vc.fn = "check_package_version" /\ vc.dep_type = "pip"
    /\ vc.spec = Str("==", <<1, 0, 0>>, "") /\ vc.parser = Pep440Parser
    /\ vc.result = <<"foo", V100, V120>>

RECURSIVE DottedNumericGreater(_, _)
\* Dotted-numeric precedence of two releases: the first numbers decide, then
\* the rest; a missing number counts as 0.
DottedNumericGreater(a, b) ==
    IF a = << >> /\ b = << >> THEN FALSE
    ELSE LET x == IF a = << >> THEN 0 ELSE Head(a)
             y == IF b = << >> THEN 0 ELSE Head(b)
         IN IF x # y THEN x > y
            ELSE DottedNumericGreater(IF a = << >> THEN a ELSE Tail(a),
                                      IF b = << >> THEN b ELSE Tail(b))

\* The version a call compares the latest version with: the installed
\* version, or the one the spec pins.
PinnedVersion ==
    IF vc.fn = "check_installed_package" THEN vc.spec
    ELSE ParsedSpec(vc.spec, vc.dep_type)

\* C21: when the latest and the pinned version are both valid versions, a
\* candidate is returned iff latest > pinned under dotted-numeric precedence,
\* and it shows the pinned version as the current one.
C21_PinnedComparison ==
    (/\ vc.pc \in {"returned", "raised"}
     /\ IsValidVersion(vc.latest) /\ IsValidVersion(PinnedVersion)) =>
        /\ vc.pc = "returned"
        /\ vc.result # NoCandidate
              <=> DottedNumericGreater(vc.latest.rel, PinnedVersion.rel)
        /\ vc.result # NoCandidate
              => vc.result = <<"foo", PinnedVersion, vc.latest>>

\* latest 2.0.0 against the pin ==1.9.5: the candidate (foo, 1.9.5, 2.0.0).
C21_Witness ==
    /\ vc.pc = "returned" /\ vc.fn = "check_package_version" /\ vc.dep_type = "pip"
    /\ vc.spec = Str("==", <<1, 9, 5>>, "") /\ vc.latest = V200
    /\ vc.result = <<"foo", V195, V200>>

\* A call of check_package_version that returned, for a spec that is a
\* string and a package whose latest version was found.
ResolvedCall(dep_types) ==
    /\ vc.pc = "returned" /\ vc.fn = "check_package_version"
    /\ vc.dep_type \in dep_types
    /\ vc.spec # NoneStr /\ ~IsFalsy(vc.latest)

\* An npm spec that starts with an optional ^ or ~ followed by
\* major.minor.patch, and the text after the prefix.
NpmTailPinned(spec) == spec.op \in {"^", "~", ""} /\ Len(spec.rel) >= 3
NpmTail(spec) == Str("", spec.rel, spec.extra)

\* An npm spec that is pinned as a whole: non-empty, without range indicator.
NpmWholePinned(spec) ==
    ~NpmTailPinned(spec) /\ spec # EmptyStr /\ ~HasRangeChar(spec)

\* The result of the call is the candidate (foo, shown, latest) when emit
\* holds and nothing otherwise.
ResultIs(emit, shown) ==
    IF emit THEN vc.result = <<"foo", shown, vc.latest>> ELSE vc.result = NoCandidate

\* C23: an npm spec with an optional ^ or ~ followed by major.minor.patch pins
\* the text after the prefix; otherwise a non-empty spec without '>', '<',
\* '*', 'x', 'X', '||' pins the whole string; otherwise the spec is unpinned.
\* A valid pin is compared with the latest version and shown as the current
\* version; an unpinned spec is compared textually and shown as it is.
C23_NpmClassification ==
    (ResolvedCall({"npm"}) /\ IsValidVersion(vc.latest)) =>
        LET v == IF NpmTailPinned(vc.spec) THEN NpmTail(vc.spec) ELSE vc.spec IN
        /\ ((NpmTailPinned(vc.spec) \/ NpmWholePinned(vc.spec)) /\ IsValidVersion(v))
              => ResultIs(DottedNumericGreater(vc.latest.rel, v.rel), v)
        /\ (~NpmTailPinned(vc.spec) /\ ~NpmWholePinned(vc.spec) /\ vc.spec # EmptyStr)
              => ResultIs(vc.latest # vc.spec, vc.spec)

\* The spec ^1.0.0 with latest 1.3.0: the candidate (foo, 1.0.0, 1.3.0).
C23_Witness ==
    /\ ResolvedCall({"npm"})
    /\ vc.spec = Str("^", <<1, 0, 0>>, "") /\ vc.latest = V130
    /\ vc.result = <<"foo", V100, V130>>

\* An unpinned spec: not empty and, for pip, without "=="; for npm, neither
\* of the two pinned forms.
IsUnpinned(spec, dep_type) ==
    /\ spec # EmptyStr
    /\ IF dep_type = "pip" THEN spec.op # "=="
       ELSE ~NpmTailPinned(spec) /\ ~NpmWholePinned(spec)

\* C24: for an unpinned spec a candidate is returned iff the latest version
\* differs textually from the raw spec, and it shows the raw spec.
C24_UnpinnedTextualInequality ==
    (ResolvedCall({"pip", "npm"}) /\ IsUnpinned(vc.spec, vc.dep_type)) =>
        ResultIs(vc.latest # vc.spec, vc.spec)

\* The pip spec >=1.0.0 with latest 1.2.0: the candidate shows >=1.0.0.
C24_Witness ==
    /\ ResolvedCall({"pip"})
    /\ vc.spec = Str(">=", <<1, 0, 0>>, "") /\ vc.latest = V120
    /\ vc.result = <<"foo", Str(">=", <<1, 0, 0>>, ""), V120>>

\* C25: for the empty spec of a package whose latest version was found, a
\* candidate is always returned and it shows "ANY", for pip and for npm.
C25_UnspecifiedAlwaysEmitted ==
    (ResolvedCall({"pip", "npm"}) /\ vc.spec = EmptyStr) => ResultIs(TRUE, AnyStr)

\* The empty npm spec with latest 1.2.0: the candidate (foo, ANY, 1.2.0).
C25_Witness ==
    /\ ResolvedCall({"npm"})
    /\ vc.spec = EmptyStr /\ vc.latest = V120
    /\ vc.result = <<"foo", AnyStr, V120>>

\* ---- the pip branch of check_package_version on the text of a spec ----

\* The characters of a raw pip spec and its longest length.
PipSpecChars == {"=", ">", "1", ".", " "}
MaxSpecLen == 5

\* "==" in version_spec_from_req
ContainsEqEq(s) == \E i \in 1..(Len(s) - 1) : s[i] = "=" /\ s[i + 1] = "="

\* The position of the first "==" of s (s contains one).
FirstEqEq(s) ==
    CHOOSE i \in 1..(Len(s) - 1) :
        /\ s[i] = "=" /\ s[i + 1] = "="
        /\ \A j \in 1..(i - 1) : ~(s[j] = "=" /\ s[j + 1] = "=")

RECURSIVE SplitEqEq(_)
\* version_spec_from_req.split("==")
SplitEqEq(s) ==
    IF ContainsEqEq(s)
    THEN <<SubSeq(s, 1, FirstEqEq(s) - 1)>>
             \o SplitEqEq(SubSeq(s, FirstEqEq(s) + 2, Len(s)))
    ELSE <<s>>

\* What the pip branch makes of a raw spec: is_pinned_exact and
\* parsed_spec_version_str (None when the spec has no "=="), and what the
\* spec counts as.
PipClassify(raw) ==
    IF ContainsEqEq(raw)
    THEN [kind |-> "Pinned", is_pinned_exact |-> TRUE,
          parsed_spec_version_str |-> Strip(SplitEqEq(raw)[2])]
    ELSE [kind |-> IF raw = << >> THEN "Unspecified" ELSE "Unpinned",
          is_pinned_exact |-> FALSE, parsed_spec_version_str |-> <<None>>]

ClassifyPipSpec ==
    /\ vc.pc = "call" /\ vc.fn = "check_package_version" /\ vc.dep_type = "pip"
    /\ vc' = [vc EXCEPT !.pc = "classified", !.result = PipClassify(vc.spec)]
    /\ UNCHANGED <<batch, task, VERSION_CACHE, lru>>
    /\ UNCHANGED notBatchVars

InitPipSpec ==
    /\ web = NoWeb
    /\ scr = NoScrape
    /\ repo = << >>
    /\ cli = NoCli
    /\ VERSION_CACHE = << >>
    /\ entryBy = << >>
    /\ lru = [fn \in LookupFns |-> << >>]
    /\ now = 0
    /\ ticks = 0
    /\ pc = [w \in Workers |-> "idle"]
    /\ frame = << >>
    /\ nCalls = 0
    /\ written = {}
    /\ oauth = NoSession
    /\ flow = NoFlow
    /\ req = NoRequests
    /\ prq = NoInvocation
    /\ remote = NoRemote
    /\ prlog = << >>
    /\ batch = NoBatch
    /\ task = << >>
    /\ \E n \in 0..MaxSpecLen : \E raw \in [1..n -> PipSpecChars] :
          vc = [NoCall EXCEPT !.pc = "call", !.fn = "check_package_version",
                   !.dep_type = "pip", !.spec = raw]

NextPipSpec == ClassifyPipSpec

SpecPipSpec == InitPipSpec /\ [][NextPipSpec]_vars

\* The text of s after its first "==".
AfterFirstEqEq(s) == SubSeq(s, FirstEqEq(s) + 2, Len(s))

\* C22: a raw pip spec is Pinned(v) iff it contains "==", with v the trimmed
\* text after the first "=="; a non-empty spec without "==" is Unpinned and
\* the empty spec is Unspecified.
C22_PipClassification ==
    vc.pc = "classified" =>
        /\ vc.result.kind = "Pinned" <=> ContainsEqEq(vc.spec)
        /\ ContainsEqEq(vc.spec) =>
              vc.result.parsed_spec_version_str = Strip(AfterFirstEqEq(vc.spec))
        /\ (~ContainsEqEq(vc.spec) /\ vc.spec # << >>) => vc.result.kind = "Unpinned"
        /\ vc.spec = << >> => vc.result.kind = "Unspecified"

\* ---- the batch of check_updates_parallel ----

\* ThreadPoolExecutor(max_workers=10)
MAX_WORKERS == 10

\* The longest declaration list of a batch.
MaxDecls == 2

BatchPackages == {"foo", "bar"}

\* What a registry answers for a package, the same every time it is asked in
\* the batch: 200 with the latest version, a failure (another status or an
\* exception), or nothing at all.
RegistryAnswers ==
    {[status |-> 200, version |-> V120],
     [status |-> 404, version |-> NoneStr],
     [status |-> -1, version |-> NoneStr]}    \* -1: the registry never answers

\* The specs a declaration of the batch may carry: older than the latest
\* version, equal to it, or None.
BatchSpecs(dep_type) ==
    IF dep_type = "pip"
    THEN {Str("==", <<1, 0, 0>>, ""), Str("==", <<1, 2, 0>>, ""), NoneStr}
    ELSE {Str("^", <<1, 0, 0>>, ""), V120, NoneStr}

\* repo_packages: the first declaration is of foo.
DeclLists(dep_type) ==
    UNION {{d \in [1..n -> [name : BatchPackages, spec : BatchSpecs(dep_type)]] :
               d[1].name = "foo"} : n \in 1..MaxDecls}

\* get_latest_version for pip, get_latest_npm_version for npm
LookupFn(dep_type) ==
    IF dep_type = "npm" THEN "get_latest_npm_version" ELSE "get_latest_version"

SettledStates == {"done", "raised"}

NewFuture == [state |-> "unsubmitted", latest |-> NoneStr, result |-> NoCandidate]

\* The future of declaration i once its lookup has returned latest.
Settle(i, latest) ==
    LET d == batch.packages[i]
        r == check_package_version(d.name, d.spec, batch.dep_type, latest, Pep440Parser)
    IN [state |-> IF r = Raised THEN "raised" ELSE "done",
        latest |-> latest,
        result |-> IF r = Raised THEN NoCandidate ELSE r]

\* A handler that lets the exception of future.result() out of the loop.
OnFutureError_Propagate == "abort"

\* except Exception as e: print_error(...): the loop goes on.
OnFutureError == "continue"

\* A collector that keeps only the first candidate.
AppendResult_KeepFirst(updates, result) ==
    IF updates = << >> THEN <<result>> ELSE updates

\* updates.append(result)
AppendResult(updates, result) == Append(updates, result)

\* A loop that is left with the first future collected.
MayReturn_AfterFirst == batch.collected # {}

\* as_completed has yielded every future and the with block has shut the
\* executor down (wait=True): every task has settled.
MayReturn ==
    /\ batch.collected = 1..Len(batch.packages)
    /\ \A i \in 1..Len(task) : task[i].state \in SettledStates

\* executor.submit(check_package_version, package_name, spec, dependency_type)
Submit ==
    /\ batch.pc = "submit"
    /\ LET i == batch.submitted + 1 IN
       /\ task' = [task EXCEPT ![i].state = "pending"]
       /\ batch' = [batch EXCEPT !.submitted = i,
                       !.pc = IF i = Len(batch.packages) THEN "collect" ELSE "submit"]
    /\ UNCHANGED <<vc, VERSION_CACHE, lru>>
    /\ UNCHANGED notBatchVars

\* A pool thread takes the oldest queued task and runs it up to the registry
\* request: the lru_cache wrapper, then the VERSION_CACHE test of the body.
TaskStart(i) ==
    /\ task[i].state = "pending"
    /\ \A j \in 1..(i - 1) : task[j].state # "pending"
    /\ Cardinality({j \in 1..Len(task) : task[j].state = "fetching"}) < MAX_WORKERS
    /\ LET fn == LookupFn(batch.dep_type)
           p == batch.packages[i].name
           k == LruIndex(lru[fn], p)
       IN IF k # 0
          THEN /\ task' = [task EXCEPT ![i] = Settle(i, lru[fn][k][2])]
               /\ lru' = [lru EXCEPT ![fn] = LruTouch(lru[fn], p)]
          ELSE IF p \in DOMAIN VERSION_CACHE /\ IsFresh(now, VERSION_CACHE[p])
          THEN /\ task' = [task EXCEPT ![i] = Settle(i, VERSION_CACHE[p][1])]
               /\ lru' = [lru EXCEPT ![fn] = LruInsert(lru[fn], p, VERSION_CACHE[p][1])]
          ELSE /\ task' = [task EXCEPT ![i].state = "fetching"]
               /\ lru' = lru
    /\ UNCHANGED <<batch, vc, VERSION_CACHE>>
    /\ UNCHANGED notBatchVars

\* requests.get(...) comes back (it has no timeout: it does not come back when
\* the registry never answers); the version is stored and the task finishes.
TaskFetch(i) ==
    /\ task[i].state = "fetching"
    /\ LET fn == LookupFn(batch.dep_type)
           p == batch.packages[i].name
           a == batch.answers[p]
       IN /\ a.status # -1
          /\ VERSION_CACHE' = IF a.status = 200
                              THEN CacheStore(VERSION_CACHE, p, a.version, now)
                              ELSE VERSION_CACHE
          /\ lru' = [lru EXCEPT ![fn] = LruInsert(lru[fn], p, a.version)]
          /\ task' = [task EXCEPT ![i] = Settle(i, a.version)]
    /\ UNCHANGED <<batch, vc>>
    /\ UNCHANGED notBatchVars

\* for future in as_completed(...): result = future.result(); a truthy result
\* is appended, an exception is printed.
Collect ==
    /\ batch.pc = "collect"
    /\ \E i \in 1..Len(task) :
          /\ i \notin batch.collected
          /\ task[i].state \in SettledStates
          /\ batch' =
               IF task[i].state = "raised"
               THEN [batch EXCEPT !.collected = @ \cup {i}, !.errors = @ \cup {i},
                        !.pc = IF OnFutureError = "continue" THEN @ ELSE "aborted"]
               ELSE IF task[i].result # NoCandidate
               THEN [batch EXCEPT !.collected = @ \cup {i},
                        !.updates = AppendResult(@, task[i].result),
                        !.sources = Append(@, i)]
               ELSE [batch EXCEPT !.collected = @ \cup {i}]
    /\ UNCHANGED <<task, vc, VERSION_CACHE, lru>>
    /\ UNCHANGED notBatchVars

\* return updates, dependency_type, dependency_file_path
BatchReturn ==
    /\ batch.pc = "collect"
    /\ MayReturn
    /\ batch' = [batch EXCEPT !.pc = "returned"]
    /\ UNCHANGED <<task, vc, VERSION_CACHE, lru>>
    /\ UNCHANGED notBatchVars

InitBatch ==
    /\ web = NoWeb
    /\ scr = NoScrape
    /\ repo = << >>
    /\ cli = NoCli
    /\ entryBy = << >>
    /\ lru = [fn \in LookupFns |-> << >>]
    /\ now = 0
    /\ ticks = 0
    /\ pc = [w \in Workers |-> "idle"]
    /\ frame = << >>
    /\ nCalls = 0
    /\ written = {}
    /\ oauth = NoSession
    /\ flow = NoFlow
    /\ req = NoRequests
    /\ prq = NoInvocation
    /\ remote = NoRemote
    /\ prlog = << >>
    /\ vc = NoCall
    /\ VERSION_CACHE \in {<< >>, [p \in {"foo"} |-> <<V100, 0>>]}
    /\ \E t \in {"pip", "npm"} :
         \E d \in DeclLists(t), a \in [BatchPackages -> RegistryAnswers] :
            /\ batch = [NoBatch EXCEPT !.pc = "submit", !.dep_type = t,
                           !.packages = d, !.answers = a, !.cache0 = VERSION_CACHE]
            /\ task = [i \in 1..Len(d) |-> NewFuture]

NextBatch ==
    \/ Submit
    \/ \E i \in 1..Len(task) : TaskStart(i)
    \/ \E i \in 1..Len(task) : TaskFetch(i)
    \/ Collect
    \/ BatchReturn

SpecBatch == InitBatch /\ [][NextBatch]_vars

\* The pool threads and the main thread keep running while they can.
SpecBatchLive == InitBatch /\ [][NextBatch]_vars /\ WF_vars(NextBatch)

\* What the lookup of a package returns in this batch: the version cached when
\* the batch started, if fresh, else the registry's answer.
ResolvedLatest(p) ==
    IF p \in DOMAIN batch.cache0 /\ IsFresh(now, batch.cache0[p])
    THEN batch.cache0[p][1]
    ELSE batch.answers[p].version

\* What check_package_version gives for declaration i.
Expected(i) ==
    LET d == batch.packages[i] IN
    check_package_version(d.name, d.spec, batch.dep_type, ResolvedLatest(d.name),
                          Pep440Parser)

\* The declarations whose check yields a candidate.
CandidateDecls ==
    {i \in 1..Len(batch.packages) : Expected(i) \notin {NoCandidate, Raised}}

\* C16: a failed resolution or an exception inside one task contributes no
\* candidate and never aborts the batch: when the batch returns, every task
\* has run, a failed declaration has no candidate in the result, and every
\* other declaration's candidate is in it.
C16_FailureDoesNotAbortBatch ==
    /\ batch.pc # "aborted"
    /\ batch.pc = "returned" =>
         \A i \in 1..Len(batch.packages) :
            /\ task[i].state \in SettledStates
            /\ i \notin CandidateDecls =>
                  \A k \in 1..Len(batch.sources) : batch.sources[k] # i
            /\ i \in CandidateDecls =>
                  \E k \in 1..Len(batch.sources) :
                      batch.sources[k] = i /\ batch.updates[k] = Expected(i)

\* The first task raised and its exception was printed before the second
\* task's candidate was collected; the batch returned that candidate.
C16_Witness ==
    /\ batch.pc = "returned" /\ Len(batch.packages) = 2
    /\ task[1].state = "raised" /\ batch.errors = {1}
    /\ batch.sources = <<2>> /\ batch.updates = <<Expected(2)>>

\* C17: the candidates returned are those of the declarations, whatever the
\* order in which the tasks ran and completed.
C17_ResultIsOrderIndependent ==
    batch.pc = "returned" =>
        /\ {batch.updates[k] : k \in 1..Len(batch.updates)}
              = {Expected(i) : i \in CandidateDecls}
        /\ Len(batch.updates) = Cardinality(CandidateDecls)

\* Two declarations of the same package, both with a candidate, collected in
\* the reverse of the order of submission.
C17_Witness ==
    /\ batch.pc = "returned"
    /\ batch.sources = <<2, 1>> /\ Len(batch.updates) = 2
    /\ batch.packages[1].name = batch.packages[2].name

\* C18: when check_updates_parallel returns, every declaration has been
\* submitted and every task has settled (done or raised) and been collected;
\* none is queued or running.
C18_ReturnsAfterAllSettled ==
    batch.pc = "returned" =>
        /\ batch.submitted = Len(batch.packages)
        /\ batch.collected = 1..Len(batch.packages)
        /\ \A i \in 1..Len(task) : task[i].state \in SettledStates

\* A batch of two tasks that returned after both had asked the registry.
C18_Witness ==
    /\ batch.pc = "returned" /\ Len(task) = 2
    /\ batch.cache0 = << >>
    /\ batch.packages[1].name # batch.packages[2].name
    /\ \A i \in 1..2 : task[i].state = "done"

\* C19: every registry request has a timeout, so the batch eventually returns
\* even when a registry never answers.
C19_BatchEventuallyReturns == <>(batch.pc = "returned")

(***************************************************************************)
(* Repository scraper: scrape_dependencies_from_github and the start of    *)
(* check_updates_parallel                                                  *)
(***************************************************************************)

\* A branch list that is probed in the other order.
branches_to_try_MasterFirst == <<"master", "main">>

branches_to_try == <<"main", "master">>

potential_files_to_scan ==
    << <<"package.json", "npm">>, <<"requirements.txt", "pip">> >>

\* The values of --dfp besides None, and what str.endswith says of a path.
OverridePaths == {"backend/package.json", "backend/requirements.txt", "deps.txt"}
EndsWithPackageJson(path) == path \in {"package.json", "backend/package.json"}
EndsWithRequirementsTxt(path) == path \in {"requirements.txt", "backend/requirements.txt"}

\* repo_url.startswith("https://github.com/") or ...("http://github.com/")
RepoUrls == {"https://github.com/o/r", "http://github.com/o/r/"}
IsGithubUrl(url) == url \in {"https://github.com/o/r", "http://github.com/o/r/"}

\* What json.loads gives: a value by its type, with the dependency sections
\* of an object; "invalid" when json.loads raises JSONDecodeError.
JsonValue(type, sections) == [type |-> type, sections |-> sections]
JsonSection(type, items) == [type |-> type, items |-> items]

\* A response with status 200: its text and what json.loads gives for that
\* text.  A JSON document is written one token per element of the text; the
\* text of a requirements file is written character by character.
Content(text, data) == [status |-> 200, text |-> text, data |-> data]

\* {"dependencies":{"f":"^1"}}
ObjectWithDeps ==
    Content(<<"{", "\"dependencies\":", "{", "\"f\":", "\"^1\"", "}", "}">>,
            JsonValue("dict", [dependencies |->
                JsonSection("dict", << <<<<"f">>, <<"^", "1">>>> >>)]))

\* {"dependencies":["f"],"devDependencies":{"b":"~2"}}
ObjectWithDevDeps ==
    Content(<<"{", "\"dependencies\":", "[", "\"f\"", "]", ",",
              "\"devDependencies\":", "{", "\"b\":", "\"~2\"", "}", "}">>,
            JsonValue("dict", [dependencies |-> JsonSection("list", << >>),
                               devDependencies |->
                                   JsonSection("dict", << <<<<"b">>, <<"~", "2">>>> >>)]))

\* {}
EmptyObject == Content(<<"{", "}">>, JsonValue("dict", << >>))

\* {"dependencies":["f"]}
ObjectWithListSection ==
    Content(<<"{", "\"dependencies\":", "[", "\"f\"", "]", "}">>,
            JsonValue("dict", [dependencies |-> JsonSection("list", << >>)]))

\* 1
JsonNumber == Content(<<"1">>, JsonValue("number", << >>))

\* []
JsonList == Content(<<"[", "]">>, JsonValue("list", << >>))

\* f==1
Requirements == Content(<<"f", "=", "=", "1">>, JsonValue("invalid", << >>))

\* #b
CommentsOnly == Content(<<"#", "b">>, JsonValue("invalid", << >>))

Contents ==
    {ObjectWithDeps, ObjectWithDevDeps, EmptyObject, ObjectWithListSection,
     JsonNumber, JsonList, Requirements, CommentsOnly}

\* Another answer of raw.githubusercontent.com: status 404, another status,
\* or a requests.RequestException (status -1).
NoContent(status) == [status |-> status, text |-> << >>, data |-> JsonValue("invalid", << >>)]
Responses == Contents \cup {NoContent(404), NoContent(500), NoContent(-1)}

\* '"dependencies":' in content
HasDependenciesKey(content) ==
    \E i \in 1..Len(content.text) : content.text[i] = "\"dependencies\":"

\* The packages of the two dependency sections of pkg_data, in order.
NpmPackages(pkg_data) ==
    LET section(key) ==
            IF key \in DOMAIN pkg_data.sections /\ pkg_data.sections[key].type = "dict"
            THEN pkg_data.sections[key].items
            ELSE << >>
    IN section("dependencies") \o section("devDependencies")

\* The characters a version spec of a requirements line starts with.
SpecStartChars == {"<", ">", "=", "!", "~"}

\* One line of a requirements file: no package for a blank line, a comment or
\* a line the pattern does not match; else the name and the stripped spec.
PipLinePackages(line_content) ==
    LET line == Strip(line_content)
        package_name == LeadingToken(line)
        rest == Strip(SubSeq(line, Len(package_name) + 1, Len(line)))
    IN IF line = << >> \/ line[1] = "#" \/ package_name = << >> THEN << >>
       ELSE << <<package_name,
                 IF rest # << >> /\ rest[1] \in SpecStartChars THEN rest ELSE << >>>> >>

RECURSIVE PipPackagesOfLines(_)
PipPackagesOfLines(lines) ==
    IF lines = << >> THEN << >>
    ELSE PipLinePackages(Head(lines)) \o PipPackagesOfLines(Tail(lines))

\* The packages of the lines of content.splitlines()
PipPackages(text) == PipPackagesOfLines(SplitLines(text))

\* What one pass of the branch loop does with the response, lines 56-117:
\* return a result, raise, go on with the next branch (continue, or the end of
\* the loop body), or leave the branch loop (break).
Outcome(kind, ret, dep_type) == [kind |-> kind, ret |-> ret, actual |-> dep_type]

OnScrapeResponse(response, path, override, actual) ==
    IF response.status # 200 THEN Outcome("continue", ScrapeNone, actual)
    ELSE LET dep_type ==
                 IF actual # None THEN actual
                 ELSE IF EndsWithPackageJson(path)
                         \/ (~EndsWithRequirementsTxt(path) /\ HasDependenciesKey(response))
                 THEN "npm"
                 ELSE "pip"
             packages == IF dep_type = "npm" THEN NpmPackages(response.data)
                         ELSE PipPackages(response.text)
         IN IF dep_type = "npm" /\ response.data.type = "invalid"
            THEN Outcome(IF override # None THEN "break" ELSE "continue",
                         ScrapeNone, dep_type)
            ELSE IF dep_type = "npm" /\ response.data.type = "number"
            THEN Outcome("raise", ScrapeNone, dep_type)
            ELSE IF packages # << >>
            THEN Outcome("return", ScrapeResult(packages, dep_type, path), dep_type)
            ELSE IF dep_type = "pip" /\ EndsWithRequirementsTxt(path)
            THEN Outcome("return", ScrapeResult(<< >>, "pip", path), dep_type)
            ELSE IF override # None
            THEN Outcome("return", ScrapeResult(<< >>, dep_type, path), dep_type)
            ELSE Outcome("continue", ScrapeNone, dep_type)

\* After the branch loop of a file, lines 124-131: None for a path given by
\* the caller; else the next file, or None after the last one.
AfterBranches(s) ==
    IF s.file_path_override # None \/ s.file = Len(s.files_to_process)
    THEN [s EXCEPT !.pc = "done", !.ret = ScrapeNone]
    ELSE [s EXCEPT !.file = @ + 1, !.branch = 1,
                   !.actual_dep_type_to_use = s.files_to_process[s.file + 1][2]]

\* Lines 17-47: the URL test and files_to_process.
ScrapeEnter ==
    /\ scr.pc = "enter"
    /\ scr' = IF ~IsGithubUrl(scr.repo_url)
              THEN [scr EXCEPT !.pc = "done", !.ret = ScrapeNone]
              ELSE LET files ==
                           IF scr.file_path_override # None
                           THEN << <<scr.file_path_override,
                                     IF EndsWithPackageJson(scr.file_path_override)
                                     THEN "npm"
                                     ELSE IF EndsWithRequirementsTxt(scr.file_path_override)
                                     THEN "pip"
                                     ELSE None>> >>
                           ELSE potential_files_to_scan
                   IN [scr EXCEPT !.pc = "probe", !.files_to_process = files,
                                  !.file = 1, !.branch = 1,
                                  !.actual_dep_type_to_use = files[1][2]]
    /\ UNCHANGED <<repo, cli>>
    /\ UNCHANGED notScrapeVars

\* One pass of the branch loop, lines 52-121: the request for the file on the
\* branch and everything done with its response.
ScrapeProbe ==
    /\ scr.pc = "probe"
    /\ LET path == scr.files_to_process[scr.file][1]
           branch == branches_to_try[scr.branch]
           out == OnScrapeResponse(repo[<<path, branch>>], path,
                                   scr.file_path_override, scr.actual_dep_type_to_use)
           probed == [scr EXCEPT !.probes = Append(@, <<path, branch>>),
                                 !.actual_dep_type_to_use = out.actual]
       IN scr' = IF out.kind = "return"
                 THEN [probed EXCEPT !.pc = "done", !.ret = out.ret]
                 ELSE IF out.kind = "raise"
                 THEN [probed EXCEPT !.pc = "raised"]
                 ELSE IF out.kind = "continue" /\ scr.branch < Len(branches_to_try)
                 THEN [probed EXCEPT !.branch = @ + 1]
                 ELSE AfterBranches(probed)
    /\ UNCHANGED <<repo, cli>>
    /\ UNCHANGED notScrapeVars

\* A caller that checks the installed packages when the scraper fails.
AfterScrape_FallBackToInstalled(scraped_info) ==
    IF scraped_info.ok /\ scraped_info.packages = << >>
    THEN [pc |-> "returned", submitted |-> 0,
          ret |-> CliResult(<< >>, scraped_info.dep_type, scraped_info.path)]
    ELSE [pc |-> "checking", submitted |-> 1, ret |-> CliResult(<< >>, None, None)]

\* check_updates_parallel after the scraper returned, cli.py:46-58: it returns
\* without updates when the scraper failed or found no package, and else
\* submits one check_package_version task per package.
AfterScrape(scraped_info) ==
    IF ~scraped_info.ok
    THEN [pc |-> "returned", submitted |-> 0, ret |-> CliResult(<< >>, None, None)]
    ELSE IF scraped_info.packages = << >>
    THEN [pc |-> "returned", submitted |-> 0,
          ret |-> CliResult(<< >>, scraped_info.dep_type, scraped_info.path)]
    ELSE [pc |-> "checking", submitted |-> Len(scraped_info.packages),
          ret |-> CliResult(<< >>, None, None)]

CheckUpdatesAfterScrape ==
    /\ cli.pc = "scraping"
    /\ scr.pc \in {"done", "raised"}
    /\ cli' = IF scr.pc = "raised" THEN [cli EXCEPT !.pc = "raised"]
              ELSE AfterScrape(scr.ret)
    /\ UNCHANGED <<scr, repo>>
    /\ UNCHANGED notScrapeVars

\* check_updates_parallel called with the URL of a repository and --dfp or
\* not; the repository answers each request for a file on a branch.
InitScrape ==
    /\ VERSION_CACHE = << >>
    /\ entryBy = << >>
    /\ lru = [fn \in {"get_latest_version", "get_latest_npm_version"} |-> << >>]
    /\ now = 0
    /\ ticks = 0
    /\ pc = [w \in {"w1", "w2"} |-> "idle"]
    /\ frame = << >>
    /\ nCalls = 0
    /\ written = {}
    /\ oauth = NoSession
    /\ flow = NoFlow
    /\ req = NoRequests
    /\ prq = NoInvocation
    /\ remote = NoRemote
    /\ prlog = << >>
    /\ batch = NoBatch
    /\ task = << >>
    /\ vc = NoCall
    /\ \E url \in RepoUrls, override \in OverridePaths \cup {None} :
         /\ scr = [NoScrape EXCEPT !.pc = "enter", !.repo_url = url,
                                   !.file_path_override = override]
         /\ LET paths == IF override # None THEN {override}
                         ELSE {"package.json", "requirements.txt"}
            IN repo \in [paths \X {"main", "master"} -> Responses]
    /\ cli = [NoCli EXCEPT !.pc = "scraping"]
    /\ web = NoWeb

NextScrape ==
    \/ ScrapeEnter
    \/ ScrapeProbe
    \/ CheckUpdatesAfterScrape

SpecScrape == InitScrape /\ [][NextScrape]_vars

\* The ecosystem of the manifest at a path given by the caller: by the suffix
\* of the path, else by whether the content has a "dependencies" key.
ManifestEcosystem(path, content) ==
    IF EndsWithPackageJson(path) THEN "npm"
    ELSE IF EndsWithRequirementsTxt(path) THEN "pip"
    ELSE IF HasDependenciesKey(content) THEN "npm"
    ELSE "pip"

\* A fetched manifest that is structurally valid and declares nothing: a JSON
\* object whose dependency sections are objects without entries, or a
\* requirements text without a package line.
ValidEmptyManifest(path, content) ==
    IF ManifestEcosystem(path, content) = "npm"
    THEN /\ content.data.type = "dict"
         /\ \A k \in DOMAIN content.data.sections :
                content.data.sections[k].type = "dict"
         /\ NpmPackages(content.data) = << >>
    ELSE PipPackages(content.text) = << >>

\* C26: with an explicit path the scraper asks for that path on main, then on
\* master; the first branch that answers 200 decides and no branch is asked
\* after it; a structurally valid manifest without declarations gives the
\* successful result ([], ecosystem, path); when no branch answers 200 the
\* scraper returns None after asking both.
C26_ExplicitPathFirst200Decides ==
    (scr.file_path_override # None /\ scr.pc \in {"probe", "done", "raised"}) =>
        LET path == scr.file_path_override
            order == << <<path, "main">>, <<path, "master">> >>
            first200 == {k \in 1..2 : /\ repo[order[k]].status = 200
                                      /\ \A j \in 1..(k - 1) : repo[order[j]].status # 200}
        IN /\ Len(scr.probes) <= 2
           /\ scr.probes = SubSeq(order, 1, Len(scr.probes))
           /\ scr.pc \in {"done", "raised"} =>
                /\ \A k \in first200 :
                      /\ Len(scr.probes) = k
                      /\ ValidEmptyManifest(path, repo[order[k]]) =>
                            /\ scr.pc = "done"
                            /\ scr.ret = ScrapeResult(<< >>,
                                   ManifestEcosystem(path, repo[order[k]]), path)
                /\ first200 = {} =>
                      scr.pc = "done" /\ scr.ret = ScrapeNone /\ scr.probes = order

\* An explicit package.json absent on main and empty on master: both branches
\* were asked and the result is the success ([], npm, path).
C26_Witness ==
    /\ scr.file_path_override = "backend/package.json"
    /\ repo[<<"backend/package.json", "main">>].status = 404
    /\ repo[<<"backend/package.json", "master">>] = EmptyObject
    /\ scr.pc = "done"
    /\ scr.probes = << <<"backend/package.json", "main">>,
                       <<"backend/package.json", "master">> >>
    /\ scr.ret = ScrapeResult(<< >>, "npm", "backend/package.json")

\* The probes of a scan, in order.
ScanOrder ==
    << <<"package.json", "main">>, <<"package.json", "master">>,
       <<"requirements.txt", "main">>, <<"requirements.txt", "master">> >>

\* The declarations a probe of the scan yields: none unless the answer is 200.
Yields(probe) ==
    IF repo[probe].status # 200 THEN << >>
    ELSE IF probe[1] = "package.json" THEN NpmPackages(repo[probe].data)
    ELSE PipPackages(repo[probe].text)

\* A scan that returned.
ScanReturned == scr.pc = "done" /\ scr.repo_url # None /\ scr.file_path_override = None

\* The scan stopped at the first probe of the set with the declarations of
\* that probe as its result, or went through every probe and returned None
\* when the set is empty.
ScanDecidedBy(probes) ==
    /\ scr.probes = SubSeq(ScanOrder, 1, Len(scr.probes))
    /\ IF probes # {}
       THEN LET k == CHOOSE i \in probes : \A j \in probes : i <= j
            IN /\ Len(scr.probes) = k
               /\ scr.ret = ScrapeResult(Yields(ScanOrder[k]),
                                IF ScanOrder[k][1] = "package.json" THEN "npm" ELSE "pip",
                                ScanOrder[k][1])
       ELSE scr.probes = ScanOrder /\ scr.ret = ScrapeNone

\* C27: a scan probes package.json then requirements.txt, each on
\* main then master, and returns the first file that yields a non-empty
\* declaration list, or None when every probe is absent or yields nothing.
C27_ScanReturnsFirstNonEmpty ==
    ScanReturned => ScanDecidedBy({k \in 1..4 : Yields(ScanOrder[k]) # << >>})

\* C28: a malformed npm manifest never makes the scraper raise, and content
\* that is not valid JSON or not a JSON object is never the source of a
\* result: the scraper skips the file or returns None.
C28_MalformedManifestNeverRaises ==
    /\ scr.pc # "raised"
    /\ cli.pc # "raised"
    /\ (scr.pc = "done" /\ scr.ret.ok /\ scr.ret.dep_type = "npm") =>
           repo[scr.probes[Len(scr.probes)]].data.type = "dict"

\* C29: when an explicit path answers 200 on neither branch, the scraper
\* returns None, check_updates_parallel submits no registry check and returns
\* no update.
C29_NotFoundSubmitsNothing ==
    (/\ scr.file_path_override # None
     /\ repo[<<scr.file_path_override, "main">>].status # 200
     /\ repo[<<scr.file_path_override, "master">>].status # 200) =>
        /\ scr.pc # "raised"
        /\ scr.pc = "done" => scr.ret = ScrapeNone
        /\ cli.submitted = 0 /\ cli.pc \in {"scraping", "returned"}
        /\ cli.pc = "returned" => cli.ret = CliResult(<< >>, None, None)

\* An explicit requirements.txt that is 404 on main and on master:
\* check_updates_parallel returned ([], None, None) after two probes.
C29_Witness ==
    /\ scr.file_path_override = "backend/requirements.txt"
    /\ repo[<<"backend/requirements.txt", "main">>].status = 404
    /\ repo[<<"backend/requirements.txt", "master">>].status = 404
    /\ Len(scr.probes) = 2
    /\ scr.ret = ScrapeNone
    /\ cli.pc = "returned" /\ cli.submitted = 0
    /\ cli.ret = CliResult(<< >>, None, None)

(***************************************************************************)
(* Patch generation on the candidates of the registry checks               *)
(***************************************************************************)

\* A line of a requirements file that declares a package without pinning it:
\* not blank, not a comment, with a leading package token and without "==".
IsUnpinnedLine(line) ==
    LET stripped == Strip(line) IN
    /\ stripped # << >> /\ stripped[1] # "#"
    /\ LeadingToken(stripped) # << >>
    /\ ~ContainsEqEq(stripped)

\* C31: in a pip file the line of a declaration that is not pinned is not
\* rewritten: every such line of the original is the same line of the
\* patched content.
C31_UnpinnedLineIsNotRewritten ==
    (prq.dep_type = "pip" /\ prq.new_content # NotComputed) =>
        LET old == SplitLines(prq.original.text)
            new == SplitLines(prq.new_content.text)
        IN \A i \in 1..Len(old) :
               IsUnpinnedLine(old[i]) => (i <= Len(new) /\ new[i] = old[i])

\* Every candidate's target is what the manifest already holds: each pip line
\* of a candidate's package is name==latest, each entry of a candidate's
\* package in a dependency section is ^latest.
TargetsAlreadyPresent ==
    LET map == UpdatesMap(prq.updates) IN
    IF prq.dep_type = "pip"
    THEN LET lines == SplitLines(prq.original.text) IN
         \A i \in 1..Len(lines) :
             LET stripped == Strip(lines[i])
                 token == LeadingToken(stripped)
             IN (stripped # << >> /\ stripped[1] # "#" /\ token \in DOMAIN map)
                    => stripped = token \o <<"=", "=">> \o map[token]
    ELSE /\ prq.original.valid
         /\ \A name \in DOMAIN prq.original.deps \cap DOMAIN map :
                prq.original.deps[name] = <<"^", map[name]>>
         /\ \A name \in DOMAIN prq.original.dev \cap DOMAIN map :
                prq.original.dev[name] = <<"^", map[name]>>

\* C32: the patched content is identical to the original when the candidate
\* list is empty and when every candidate's target is the value the manifest
\* already holds, for pip and for npm.
C32_NoChangeGivesIdenticalContent ==
    (prq.new_content # NotComputed /\ (prq.updates = << >> \/ TargetsAlreadyPresent))
        => prq.new_content = prq.original

\* C33: patching the patched content with the same candidates gives the
\* patched content again.
C33_PatchIsIdempotent ==
    prq.new_content # NotComputed =>
        generate_new_dependency_file_content(prq.new_content, prq.dep_type, prq.updates)
            = prq.new_content

\* C34: in the patched package.json every entry of "dependencies" and
\* "devDependencies" whose package is a candidate is ^latest, whatever its
\* operator was; every other entry is as it was, and no section appears or
\* disappears.
C34_NpmPatchSetsCaretLatest ==
    (prq.dep_type = "npm" /\ prq.new_content # NotComputed /\ prq.original.valid) =>
        LET map == UpdatesMap(prq.updates)
            patched(old, new) ==
                /\ DOMAIN new = DOMAIN old
                /\ \A name \in DOMAIN old :
                       new[name] = IF name \in DOMAIN map
                                   THEN <<"^", map[name]>> ELSE old[name]
        IN /\ patched(prq.original.deps, prq.new_content.deps)
           /\ patched(prq.original.dev, prq.new_content.dev)
           /\ prq.new_content.hasDeps = prq.original.hasDeps
           /\ prq.new_content.hasDev = prq.original.hasDev
           /\ prq.new_content.valid

\* A package.json with f at ~1 and b at 1 in devDependencies, patched with a
\* candidate for f only: f is ^2 and b is as it was.
C34_Witness ==
    /\ prq.dep_type = "npm" /\ prq.new_content # NotComputed
    /\ prq.original = JsonFile("other", TRUE, [f |-> <<"~", "1">>], TRUE, [b |-> <<"", "1">>])
    /\ prq.updates = << <<"f", "1", "2">> >>
    /\ prq.new_content.deps = [f |-> <<"^", "2">>]
    /\ prq.new_content.dev = [b |-> <<"", "1">>]

(***************************************************************************)
(* The order of the remote operations of create_github_pr                  *)
(***************************************************************************)

\* The remote operations of the pipeline that succeeded, in order.
PipelineOps == SelectSeq(prlog, LAMBDA op : op # "other_write")

\* The place of a remote operation in the sequence of create_github_pr.
OpRank(op) ==
    IF op = "get_branch" THEN 1
    ELSE IF op = "create_git_ref" THEN 2
    ELSE IF op = "get_contents" THEN 3
    ELSE IF op \in {"update_file", "create_file"} THEN 4
    ELSE 5

\* C36: the remote operations of create_github_pr happen in the order: read
\* the default branch, create the ref, read the file on the new branch,
\* update or create the file, open the pull request; only the creation of a
\* ref that exists may be left out; the pull request is opened only after the
\* file commit succeeded; after a failure the call returns None and no pull
\* request is opened.
C36_RemoteOperationsInOrder ==
    LET ops == PipelineOps
        ranks == {OpRank(ops[i]) : i \in 1..Len(ops)}
    IN /\ \A i \in 1..Len(ops), j \in 1..Len(ops) :
              i < j => OpRank(ops[i]) < OpRank(ops[j])
       /\ \A r \in ranks : \A q \in 1..(r - 1) :
              q \in ranks \/ (q = 2 /\ prq.ref_outcome = "exists")
       /\ (prq.pc = "done" /\ prq.ret # None) <=> 5 \in ranks
       /\ remote.pulls = (IF 5 \in ranks THEN 1 ELSE 0)
       /\ prq.failed_at # None =>
              /\ prq.pc = "done" /\ prq.ret = None
              /\ 5 \notin ranks

\* A call that went through the five operations and returned the URL of the
\* pull request.
C36_Witness ==
    /\ prq.pc = "done" /\ prq.ret = "html_url"
    /\ PipelineOps = <<"get_branch", "create_git_ref", "get_contents",
                       "update_file", "create_pull">>
    /\ remote.pulls = 1

(***************************************************************************)
(* Web request handlers: pr_status and submit_pr beside the polling thread *)
(* of poll_and_create_pr                                                   *)
(***************************************************************************)

\* How many submit_pr requests a client sends.
MaxSubmits == 2

\* A handler that answers only once the flow has left waiting_for_user.
HandlerAnswers_AfterAuthorization(f) == f.status # "waiting_for_user"

\* pr_status and submit_pr read oauth_flows and answer: they take no lock and
\* join no thread, so they answer whatever the status of the flow is.
HandlerAnswers(f) == TRUE

\* A test that takes the stored token for the authorization.
MayCreatePr_HasToken(f) == f.access_token # None

\* if flow.get("status") == "authorized":
MayCreatePr(f) == f.status = "authorized"

\* pr_status: 404 for a device code without flow, else jsonify(flow).
PrStatusResponse(f) ==
    IF f.status = None THEN [NoAnswer EXCEPT !.code = "404"]
    ELSE [code |-> "200", status |-> f.status, access_token |-> f.access_token]

\* What submit_pr gets for an authorized flow: no file content from
\* fetch_original_file_content, None from create_github_pr, or the URL of
\* the pull request.
SubmitOutcomes == {"no_file", "failed", "created"}

\* GET /pr_status/<device_code>
PrStatus ==
    /\ oauth.impl = "web"
    /\ HandlerAnswers(flow)
    /\ web' = [web EXCEPT !.pr_status = PrStatusResponse(flow)]
    /\ UNCHANGED flow
    /\ UNCHANGED notWebVars

\* POST /submit_pr: 400 for missing fields or an unknown device code; else the
\* title and body are stored in the flow and, for an authorized flow, the file
\* is fetched and create_github_pr is called; "pending" otherwise.
SubmitPrRequest ==
    /\ oauth.impl = "web"
    /\ web.submits < MaxSubmits
    /\ HandlerAnswers(flow)
    /\ \E fields_ok \in BOOLEAN, outcome \in SubmitOutcomes :
          IF ~fields_ok \/ flow.status = None
          THEN /\ web' = [web EXCEPT !.submits = @ + 1, !.submit_pr = "400"]
               /\ flow' = flow
          ELSE /\ flow' = [flow EXCEPT !.pr_title = "title", !.pr_body = "body"]
               /\ web' =
                    IF ~MayCreatePr(flow)
                    THEN [web EXCEPT !.submits = @ + 1, !.submit_pr = "pending"]
                    ELSE IF flow.access_token = None \/ outcome = "no_file"
                    THEN [web EXCEPT !.submits = @ + 1, !.submit_pr = "400"]
                    ELSE IF outcome = "failed"
                    THEN [web EXCEPT !.submits = @ + 1, !.submit_pr = "500",
                                     !.pipeline_calls = @ + 1]
                    ELSE [web EXCEPT !.submits = @ + 1, !.submit_pr = "pr_url",
                                     !.pipeline_calls = @ + 1, !.pulls = @ + 1]
    /\ UNCHANGED notWebVars

\* The web application: start_pr, the polling thread and the two handlers.
InitWeb == InitOAuth /\ oauth.impl = "web"

NextWeb ==
    \/ DeviceCodeFails
    \/ DeviceCodeGranted
    \/ WebCheck
    \/ Sleep
    \/ WebRequest
    \/ WebSetStatus
    \/ PrStatus
    \/ SubmitPrRequest

SpecWeb == InitWeb /\ [][NextWeb]_vars

\* The polling thread keeps running; requests come when clients send them.
SpecWebLive == InitWeb /\ [][NextWeb]_vars /\ WF_vars(PollStep)

C37_TokenOnlySeenAuthorized ==
    /\ web.pr_status.access_token # None => web.pr_status.status = "authorized"
    /\ (oauth.impl = "web" /\ flow.access_token # None) => flow.status = "authorized"

\* C38: submit_pr calls create_github_pr, and a pull request appears, only
\* when the flow exists, its status is authorized and it holds the token.
C38_PipelineOnlyWhenAuthorized ==
    [][(web'.pipeline_calls # web.pipeline_calls \/ web'.pulls # web.pulls)
          => (flow.status = "authorized" /\ flow.access_token = TheToken)]_vars

\* submit_pr answered "pending" first and, once the flow was authorized,
\* created the pull request.
C38_Witness ==
    /\ flow.status = "authorized" /\ flow.access_token = TheToken
    /\ web.submits = 2
    /\ web.pipeline_calls = 1 /\ web.pulls = 1
    /\ web.submit_pr = "pr_url"

\* C39: when the last answer of submit_pr was "pending" and the flow is
\* authorized, a pull request is eventually created without another
\* submit_pr request.
C39_PendingSubmitIsCompleted ==
    (web.submit_pr = "pending" /\ flow.status = "authorized") ~> (web.pulls > 0)

====
